---- MODULE Spec2Model ----
(***************************************************************************)
(* Verification model of the CESSCalculator structural solvers: the linear *)
(* algebra kernel (src/lib/solver/beam/linearAlgebra.ts), the fixed-end-   *)
(* moment library (src/lib/solver/beam/fem.ts), the continuous beam solver *)
(* and its legacy wrapper, and the frame solver.                           *)
(*                                                                         *)
(* JavaScript numbers are modelled as exact extended rationals <<n, d>>:   *)
(* d > 0 is the reduced fraction n/d, <<1,0>> is +Infinity, <<-1,0>> is    *)
(* -Infinity and <<0,0>> is NaN.  Rounding error and the sign of zero are  *)
(* not modelled.  Arrays are 1-based sequences (index i of the source is   *)
(* index i+1 here).                                                        *)
(***************************************************************************)
EXTENDS Integers, Sequences, FiniteSets, TLC

VARIABLES
    A, b,            \* arguments of the running solveLinearSystem call
    augmented,       \* its private augmented matrix [A|b]
    col,             \* its elimination column (0-based, as in the source)
    laPc,            \* "call" | "eliminate" | "back" | "done" | "threw"
    x,               \* the returned vector (<<>> until returned)
    beamSolver,      \* the fields of one ContinuousBeamSolver instance
    beamData,        \* the caller's ContinuousBeamData document
    beamOutcome,     \* what the last solve call returned or threw
    beamPc,          \* "idle" | "ready" (document built) | "done" (solve ended)
    beamCalls,       \* solve calls made on the instance so far
    beamEarlier,     \* how each of them ended: the error thrown, "" if it returned
    frameSolver,     \* the fields of one FrameAnalysisSolver instance
    frameData,       \* the caller's FrameData document
    frameOutcome,    \* what the last solve call returned or threw
    framePc,         \* "idle" | "ready" | "done"
    frameCalls,      \* solve calls made on the instance so far
    frameEarlier,    \* how each of them ended: the error thrown, "" if it returned
    wrapSolver,      \* the ContinuousBeamSolver instance one BeamSolver wraps
    wrapInput,       \* the caller's BeamInput
    wrapOutcome,     \* what the wrapper's solve returned
    wrapPc,          \* "idle" | "ready" | "done"
    femCall,         \* one call of a fixed-end-moment function: its name and arguments
    femResult,       \* what that call returned or threw
    femPc,           \* "idle" | "ready" (arguments chosen) | "done"
    projects,        \* the project store's list
    storeOp,         \* the store operation that ran last, with its id argument
    clock,           \* what Date.now() returns
    editor,          \* the beam editor's state: length, ei, supports, loads
    editorSeen,      \* the state.length the editor's callbacks captured at the last render
    nanoIssued,      \* how many ids nanoid() has handed out
    beamDiagrams     \* the diagrams of the last beam solve, where they are followed

laVars == <<A, b, augmented, col, laPc, x>>
beamVars == <<beamSolver, beamData, beamOutcome, beamPc, beamCalls, beamEarlier>>
frameVars == <<frameSolver, frameData, frameOutcome, framePc, frameCalls, frameEarlier>>
wrapVars == <<wrapSolver, wrapInput, wrapOutcome, wrapPc>>
femVars == <<femCall, femResult, femPc>>
storeVars == <<projects, storeOp, clock>>
editorVars == <<editor, editorSeen>>
appVars == <<storeVars, editorVars, nanoIssued, beamDiagrams>>
vars == <<A, b, augmented, col, laPc, x,
          beamSolver, beamData, beamOutcome, beamPc, beamCalls, beamEarlier,
          frameSolver, frameData, frameOutcome, framePc, frameCalls, frameEarlier,
          wrapSolver, wrapInput, wrapOutcome, wrapPc,
          femCall, femResult, femPc,
          projects, storeOp, clock, editor, editorSeen, nanoIssued, beamDiagrams>>

----------------------------------------------------------------------------
(* JavaScript number arithmetic over extended rationals *)

RECURSIVE GCD(_, _)
GCD(m, n) == IF n = 0 THEN m ELSE GCD(n, m % n)

IAbs(i) == IF i < 0 THEN -i ELSE i
ISign(i) == IF i < 0 THEN -1 ELSE IF i > 0 THEN 1 ELSE 0

NaN == <<0, 0>>
PosInf == <<1, 0>>
NegInf == <<-1, 0>>

Norm(n, d) ==
    IF d = 0 THEN <<ISign(n), 0>>
    ELSE IF n = 0 THEN <<0, 1>>
    ELSE LET g == GCD(IAbs(n), IAbs(d))
             s == IF d < 0 THEN -1 ELSE 1
         IN  <<s * (n \div g), s * (d \div g)>>

Q(i) == <<i, 1>>
Frac(n, d) == Norm(n, d)

IsNaN(p) == p[2] = 0 /\ p[1] = 0
IsInf(p) == p[2] = 0 /\ p[1] # 0
IsFinite(p) == p[2] # 0
Sgn(p) == ISign(p[1])

Neg(p) == <<-p[1], p[2]>>
Abs(p) == <<IAbs(p[1]), p[2]>>

Add(p, q) ==
    IF IsNaN(p) \/ IsNaN(q) THEN NaN
    ELSE IF IsInf(p) THEN (IF IsInf(q) /\ q[1] # p[1] THEN NaN ELSE p)
    ELSE IF IsInf(q) THEN q
    ELSE LET g == GCD(p[2], q[2])
         IN  Norm(p[1] * (q[2] \div g) + q[1] * (p[2] \div g), (p[2] \div g) * q[2])

Sub(p, q) == Add(p, Neg(q))

Mul(p, q) ==
    IF IsNaN(p) \/ IsNaN(q) THEN NaN
    ELSE IF IsInf(p) \/ IsInf(q)
         THEN (IF Sgn(p) = 0 \/ Sgn(q) = 0 THEN NaN ELSE <<Sgn(p) * Sgn(q), 0>>)
    ELSE IF p[1] = 0 \/ q[1] = 0 THEN <<0, 1>>
    ELSE LET g1 == GCD(IAbs(p[1]), q[2])
             g2 == GCD(IAbs(q[1]), p[2])
         IN  <<(p[1] \div g1) * (q[1] \div g2), (p[2] \div g2) * (q[2] \div g1)>>

Div(p, q) ==
    IF IsNaN(p) \/ IsNaN(q) THEN NaN
    ELSE IF IsInf(q) THEN (IF IsInf(p) THEN NaN ELSE <<0, 1>>)
    ELSE IF q[1] = 0 THEN <<Sgn(p), 0>>
    ELSE IF IsInf(p) THEN <<Sgn(p) * Sgn(q), 0>>
    ELSE Mul(p, Norm(q[2], q[1]))

\* p < q as JavaScript decides it (false as soon as one side is NaN)
Lt(p, q) ==
    IF IsNaN(p) \/ IsNaN(q) THEN FALSE
    ELSE IF IsInf(p) THEN p[1] < 0 /\ q # p
    ELSE IF IsInf(q) THEN q[1] > 0
    ELSE p[1] * q[2] < q[1] * p[2]

Gt(p, q) == Lt(q, p)
Le(p, q) == ~IsNaN(p) /\ ~IsNaN(q) /\ ~Lt(q, p)
Ge(p, q) == Le(q, p)

\* Math.min / Math.max of two numbers (NaN if either is NaN)
Min2(p, q) == IF IsNaN(p) \/ IsNaN(q) THEN NaN ELSE IF Lt(q, p) THEN q ELSE p
Max2(p, q) == IF IsNaN(p) \/ IsNaN(q) THEN NaN ELSE IF Lt(p, q) THEN q ELSE p

\* Math.abs(p) < 1/(root*root), computed without leaving 32 bits
AbsBelowInvSquare(p, root) ==
    /\ IsFinite(p)
    /\ \/ p[1] = 0
       \/ ((p[2] - 1) \div root) \div root >= IAbs(p[1])

----------------------------------------------------------------------------
(* Linear algebra kernel: src/lib/solver/beam/linearAlgebra.ts *)

PivotTolRoot == 1000000

\* an array built element by element, held as a sequence
Array(f) == f \o <<>>

createZeroVector(length) == Array([i \in 1..length |-> Q(0)])
createZeroMatrix(rows, cols) == Array([i \in 1..rows |-> Array([j \in 1..cols |-> Q(0)])])

transposeMatrix(matrix) ==
    IF Len(matrix) = 0 THEN <<>>
    ELSE Array([j \in 1..Len(matrix[1]) |-> Array([i \in 1..Len(matrix) |-> matrix[i][j]])])

\* minor(matrix, row, col): the matrix without that row and column
minor(matrix, row, c) ==
    LET n == Len(matrix)
    IN  Array([i \in 1..(n - 1) |->
            Array([j \in 1..(n - 1) |->
                matrix[IF i < row THEN i ELSE i + 1][IF j < c THEN j ELSE j + 1]])])

RECURSIVE determinant(_)
RECURSIVE DetExpand(_, _, _)
\* cofactor expansion along the first row, columns j..n
DetExpand(matrix, j, det) ==
    IF j > Len(matrix) THEN det
    ELSE DetExpand(matrix, j + 1,
            Add(det, Mul(Mul(Q(IF j % 2 = 1 THEN 1 ELSE -1), matrix[1][j]),
                         determinant(minor(matrix, 1, j)))))

determinant(matrix) ==
    LET n == Len(matrix)
    IN  IF n = 1 THEN matrix[1][1]
        ELSE IF n = 2
             THEN Sub(Mul(matrix[1][1], matrix[2][2]), Mul(matrix[1][2], matrix[2][1]))
        ELSE DetExpand(matrix, 1, Q(0))

RECURSIVE DotFrom(_, _, _, _)
\* row.reduce((sum, val, j) => sum + val * vector[j], 0), from index j on
DotFrom(row, vector, j, sum) ==
    IF j > Len(row) THEN sum
    ELSE DotFrom(row, vector, j + 1, Add(sum, Mul(row[j], vector[j])))

multiplyMatrixVector(matrix, vector) ==
    Array([i \in 1..Len(matrix) |-> DotFrom(matrix[i], vector, 1, Q(0))])

multiplyMatrices(a, bb) ==
    Array([i \in 1..Len(a) |->
        Array([j \in 1..Len(bb[1]) |->
            DotFrom(a[i], Array([k \in 1..Len(bb) |-> bb[k][j]]), 1, Q(0))])])

\* the pivot search of one column: the first row, from c down, whose entry in
\* column c has the strictly largest magnitude
RECURSIVE FindMaxRow(_, _, _, _, _)
FindMaxRow(aug, c, row, maxRow, maxVal) ==
    IF row > Len(aug) THEN maxRow
    ELSE LET val == Abs(aug[row][c])
         IN  IF Gt(val, maxVal)
             THEN FindMaxRow(aug, c, row + 1, row, val)
             ELSE FindMaxRow(aug, c, row + 1, maxRow, maxVal)

\* PivotRow without the search: the diagonal entry is always the pivot
PivotRow_NoSearch(aug, c) == c

\* PivotRow comparing signed values instead of magnitudes
RECURSIVE FindMaxRowSigned(_, _, _, _, _)
FindMaxRowSigned(aug, c, row, maxRow, maxVal) ==
    IF row > Len(aug) THEN maxRow
    ELSE IF Gt(aug[row][c], maxVal)
         THEN FindMaxRowSigned(aug, c, row + 1, row, aug[row][c])
         ELSE FindMaxRowSigned(aug, c, row + 1, maxRow, maxVal)

PivotRow_Signed(aug, c) == FindMaxRowSigned(aug, c, c + 1, c, aug[c][c])

PivotRow(aug, c) == FindMaxRow(aug, c, c + 1, c, Abs(aug[c][c]))

SwapRows(aug, r1, r2) ==
    Array([i \in 1..Len(aug) |->
        IF i = r1 THEN aug[r2] ELSE IF i = r2 THEN aug[r1] ELSE aug[i]])

PivotIsSingular(aug, c) == AbsBelowInvSquare(aug[c][c], PivotTolRoot)

\* rows below c: row[j] -= factor * pivotRow[j] for j = c..n+1, where the
\* factor is read before the row is touched
EliminateBelow(aug, c) ==
    Array([i \in 1..Len(aug) |->
        IF i <= c THEN aug[i]
        ELSE LET factor == Div(aug[i][c], aug[c][c])
             IN  Array([j \in 1..Len(aug[i]) |->
                    IF j < c THEN aug[i][j]
                    ELSE Sub(aug[i][j], Mul(factor, aug[c][j]))])])

\* one pass of the elimination loop for column c (1-based)
EliminateColumn(aug, c) ==
    LET maxRow  == PivotRow(aug, c)
        swapped == IF maxRow # c THEN SwapRows(aug, c, maxRow) ELSE aug
    IN  IF PivotIsSingular(swapped, c)
        THEN [threw |-> TRUE, aug |-> swapped]
        ELSE [threw |-> FALSE, aug |-> EliminateBelow(swapped, c)]

RECURSIVE BackSum(_, _, _, _, _)
BackSum(aug, xs, row, j, sum) ==
    IF j > Len(aug) THEN sum
    ELSE BackSum(aug, xs, row, j + 1, Sub(sum, Mul(aug[row][j], xs[j])))

RECURSIVE BackSubstitute(_, _, _)
BackSubstitute(aug, xs, row) ==
    IF row < 1 THEN xs
    ELSE LET n   == Len(aug)
             sum == BackSum(aug, xs, row, row + 1, aug[row][n + 1])
         IN  BackSubstitute(aug, [xs EXCEPT ![row] = Div(sum, aug[row][row])], row - 1)

Augment(AA, bv) == Array([i \in 1..Len(AA) |-> Append(AA[i], bv[i])])

RECURSIVE ForwardEliminate(_, _)
ForwardEliminate(aug, c) ==
    IF c > Len(aug) THEN [threw |-> FALSE, aug |-> aug, col |-> c]
    ELSE LET r == EliminateColumn(aug, c)
         IN  IF r.threw THEN [threw |-> TRUE, aug |-> r.aug, col |-> c]
             ELSE ForwardEliminate(r.aug, c + 1)

\* the whole call; error is "" on return
solveLinearSystem(AA, bv) ==
    LET n == Len(AA)
    IN  IF n = 0 THEN [error |-> "", x |-> <<>>]
        ELSE IF Len(AA[1]) # n THEN [error |-> "NotSquare", x |-> <<>>]
        ELSE IF Len(bv) # n THEN [error |-> "LengthMismatch", x |-> <<>>]
        ELSE LET f == ForwardEliminate(Augment(AA, bv), 1)
             IN  IF f.threw THEN [error |-> "Singular", x |-> <<>>]
                 ELSE [error |-> "", x |-> BackSubstitute(f.aug, createZeroVector(n), n)]

----------------------------------------------------------------------------
(* Fixed-end-moment library: src/lib/solver/beam/fem.ts *)

\* an absent optional number (undefined); an absent optional string is ""
Undef == <<>>
Nullish(v, dflt) == IF v = Undef THEN dflt ELSE v
NullishStr(v, dflt) == IF v = "" THEN dflt ELSE v

\* const v = ...: a value computed once, before Body runs, and then used by
\* name in Body
With(v, Body(_)) == LET r == v IN CASE r = r -> Body(r)

TinyRoot == 100000
\* Math.abs(v) < 1e-10
Tiny(v) == AbsBelowInvSquare(v, TinyRoot)

\* Math.max(0, Math.min(L, position))
Clamp(L, position) == Max2(Q(0), Min2(L, position))

FemOk(fs, fe) == [error |-> "", femStart |-> fs, femEnd |-> fe]
FemThrow(msg) == [error |-> msg, femStart |-> Q(0), femEnd |-> Q(0)]

\* the point-load formulas with the start moment left unsigned
calculatePointLoadFEM_Unsigned(magnitude, spanLength, position) ==
    LET P  == magnitude
        L  == spanLength
        a  == Clamp(L, position)
        bb == Sub(L, a)
        L2 == Mul(L, L)
    IN  IF Le(L, Q(0)) THEN FemThrow("Span length must be positive")
        ELSE FemOk(Div(Mul(Mul(Mul(P, a), bb), bb), L2),
                   Div(Mul(Mul(Mul(P, a), a), bb), L2))

calculatePointLoadFEM(magnitude, spanLength, position) ==
    LET P  == magnitude
        L  == spanLength
        a  == Clamp(L, position)
        bb == Sub(L, a)
        L2 == Mul(L, L)
    IN  IF Le(L, Q(0)) THEN FemThrow("Span length must be positive")
        ELSE FemOk(Neg(Div(Mul(Mul(Mul(P, a), bb), bb), L2)),
                   Div(Mul(Mul(Mul(P, a), a), bb), L2))

UdlSegments == 20

\* the sum with each segment's load placed at the segment's left edge
RECURSIVE UdlSegmentSum_LeftEdge(_, _, _, _, _, _)
UdlSegmentSum_LeftEdge(w, L, a, dx, lo, hi) ==
    IF hi <= lo THEN FemOk(Q(0), Q(0))
    ELSE IF hi = lo + 1
         THEN calculatePointLoadFEM(Mul(w, dx), L, Add(a, Mul(Q(lo), dx)))
    ELSE With(UdlSegmentSum_LeftEdge(w, L, a, dx, lo, (lo + hi) \div 2), LAMBDA left :
         With(UdlSegmentSum_LeftEdge(w, L, a, dx, (lo + hi) \div 2, hi), LAMBDA right :
            FemOk(Add(left.femStart, right.femStart), Add(left.femEnd, right.femEnd))))

\* lines 139-145: the midpoint sum over segments lo..hi-1 of the loaded region;
\* the loop's running sum is split in halves here (addition of exact
\* rationals is associative)
RECURSIVE UdlSegmentSum(_, _, _, _, _, _)
UdlSegmentSum(w, L, a, dx, lo, hi) ==
    IF hi <= lo THEN FemOk(Q(0), Q(0))
    ELSE IF hi = lo + 1
         THEN calculatePointLoadFEM(Mul(w, dx), L, Add(a, Mul(Frac(2 * lo + 1, 2), dx)))
    ELSE With(UdlSegmentSum(w, L, a, dx, lo, (lo + hi) \div 2), LAMBDA left :
         With(UdlSegmentSum(w, L, a, dx, (lo + hi) \div 2, hi), LAMBDA right :
            FemOk(Add(left.femStart, right.femStart), Add(left.femEnd, right.femEnd))))

calculateUDLFEM(magnitude, spanLength, startPos, endPos) ==
    LET w  == magnitude
        L  == spanLength
        x1 == Clamp(L, startPos)
        x2 == Clamp(L, endPos)
        a  == Min2(x1, x2)
        bb == Max2(x1, x2)
        L2 == Mul(L, L)
        loadLength == Sub(bb, a)
    IN  IF Le(L, Q(0)) THEN FemThrow("Span length must be positive")
        ELSE IF Tiny(Sub(bb, a)) THEN FemOk(Q(0), Q(0))
        ELSE IF Tiny(a) /\ Tiny(Sub(bb, L))
             THEN FemOk(Neg(Div(Mul(w, L2), Q(12))), Div(Mul(w, L2), Q(12)))
        ELSE IF Ge(loadLength, Mul(L, Frac(95, 100)))
             THEN FemOk(Neg(Div(Mul(w, L2), Q(12))), Div(Mul(w, L2), Q(12)))
        ELSE UdlSegmentSum(w, L, a, Div(loadLength, Q(UdlSegments)), 0, UdlSegments)

\* The 10-point Gauss-Legendre rule of lines 232-264 is exact for polynomials
\* of degree <= 19; the integrands here have degree 4, so in exact arithmetic
\* its value is the integral itself, computed here by Boole's 5-point rule
\* (exact to degree 5) on the same interval [a, b].
BooleWeight(i) == IF i = 0 \/ i = 4 THEN 7 ELSE IF i = 2 THEN 12 ELSE 32

RECURSIVE VdlQuadrature(_, _, _, _, _, _, _, _)
VdlQuadrature(w1, w2, L, a, bb, i, femStart, femEnd) ==
    IF i > 4 THEN FemOk(femStart, femEnd)
    ELSE LET loadLength == Sub(bb, a)
             L2     == Mul(L, L)
             xx     == Add(a, Mul(Frac(i, 4), loadLength))
             localT == Div(Sub(xx, a), loadLength)
             w_x    == Add(w1, Mul(Sub(w2, w1), localT))
             dP     == Mul(w_x, Mul(loadLength, Frac(BooleWeight(i), 90)))
             x_minus_L == Sub(L, xx)
         IN  VdlQuadrature(w1, w2, L, a, bb, i + 1,
                Add(femStart, Neg(Div(Mul(Mul(Mul(dP, xx), x_minus_L), x_minus_L), L2))),
                Add(femEnd, Div(Mul(Mul(Mul(dP, xx), xx), x_minus_L), L2)))

\* the full-span decomposition with the triangular part always taken as
\* increasing along the span
calculateVDLFEM_Increasing(w1, w2, spanLength, startPos, endPos) ==
    LET L  == spanLength
        a  == Clamp(L, startPos)
        bb == Clamp(L, Nullish(endPos, L))
        L2 == Mul(L, L)
        wRect == Min2(w1, w2)
        wTri  == Sub(Max2(w1, w2), wRect)
    IN  IF Le(L, Q(0)) THEN FemThrow("Span length must be positive")
        ELSE IF Tiny(Sub(bb, a)) THEN FemOk(Q(0), Q(0))
        ELSE IF Tiny(a) /\ Tiny(Sub(bb, L))
             THEN FemOk(Add(Neg(Div(Mul(wRect, L2), Q(12))), Neg(Div(Mul(wTri, L2), Q(20)))),
                        Add(Div(Mul(wRect, L2), Q(12)), Div(Mul(wTri, L2), Q(30))))
        ELSE VdlQuadrature(w1, w2, L, a, bb, 0, Q(0), Q(0))

calculateVDLFEM(w1, w2, spanLength, startPos, endPos) ==
    LET L  == spanLength
        actualEndPos == Nullish(endPos, L)
        a  == Clamp(L, startPos)
        bb == Clamp(L, actualEndPos)
        L2 == Mul(L, L)
        wMin  == Min2(w1, w2)
        wMax  == Max2(w1, w2)
        wRect == wMin
        wTri  == Sub(wMax, wMin)
        rectStart == Neg(Div(Mul(wRect, L2), Q(12)))
        rectEnd   == Div(Mul(wRect, L2), Q(12))
    IN  IF Le(L, Q(0)) THEN FemThrow("Span length must be positive")
        ELSE IF Tiny(Sub(bb, a)) THEN FemOk(Q(0), Q(0))
        ELSE IF Tiny(a) /\ Tiny(Sub(bb, L))
             THEN IF Gt(wTri, Q(0))
                  THEN IF Gt(w2, w1)
                       THEN FemOk(Add(rectStart, Neg(Div(Mul(wTri, L2), Q(20)))),
                                  Add(rectEnd, Div(Mul(wTri, L2), Q(30))))
                       ELSE FemOk(Add(rectStart, Neg(Div(Mul(wTri, L2), Q(30)))),
                                  Add(rectEnd, Div(Mul(wTri, L2), Q(20))))
                  ELSE FemOk(rectStart, rectEnd)
        ELSE VdlQuadrature(w1, w2, L, a, bb, 0, Q(0), Q(0))

calculateMomentFEM(magnitude, spanLength, position) ==
    LET M  == magnitude
        L  == spanLength
        a  == Clamp(L, position)
        bb == Sub(L, a)
        L2 == Mul(L, L)
    IN  IF Le(L, Q(0)) THEN FemThrow("Span length must be positive")
        ELSE FemOk(Div(Mul(Mul(M, bb), Sub(L, Mul(Q(3), a))), L2),
                   Div(Mul(Mul(M, a), Sub(Mul(Q(3), a), L)), L2))

isPointLoad(load) == load.type = "point"
isUDL(load) == load.type = "udl"
isVDL(load) == load.type = "vdl"
isAppliedMoment(load) == load.type = "moment"

\* the FEM of one load on a span of the given length (the dispatch of
\* calculateSpanFEM); a load of no known type contributes nothing
LoadFEM(load, length) ==
    IF isPointLoad(load) THEN calculatePointLoadFEM(load.magnitude, length, load.position)
    ELSE IF isUDL(load)
         THEN calculateUDLFEM(load.magnitude, length, load.startPosition, load.endPosition)
    ELSE IF isVDL(load)
         THEN calculateVDLFEM(load.w1, load.w2, length, load.startPosition, load.endPosition)
    ELSE IF isAppliedMoment(load) THEN calculateMomentFEM(load.magnitude, length, load.position)
    ELSE FemOk(Q(0), Q(0))

RECURSIVE SpanFEMLoop(_, _, _, _, _)
SpanFEMLoop(span, spanLoads, i, totalFemStart, totalFemEnd) ==
    IF i > Len(spanLoads) THEN FemOk(totalFemStart, totalFemEnd)
    ELSE With(LoadFEM(spanLoads[i], span.length), LAMBDA fem :
            IF fem.error # "" THEN fem
            ELSE SpanFEMLoop(span, spanLoads, i + 1,
                             Add(totalFemStart, fem.femStart), Add(totalFemEnd, fem.femEnd)))

LoadsOnSpan(loads, spanId) == SelectSeq(loads, LAMBDA load : load.spanId = spanId)

calculateSpanFEM(span, loads) == SpanFEMLoop(span, LoadsOnSpan(loads, span.id), 1, Q(0), Q(0))

----------------------------------------------------------------------------
(* Beam types: src/lib/types/beam.ts *)

convertEToKNm2(E, unit) ==
    IF unit = "GPa" THEN Mul(E, Q(1000000))
    ELSE IF unit = "MPa" THEN Mul(E, Q(1000))
    ELSE IF unit = "kPa" THEN E
    ELSE IF unit = "kN/m2" THEN E
    ELSE Mul(E, Q(1000000))

\* I * 1e-12 and I * 1e-8, as two exact factors each
convertIToM4(I, unit) ==
    IF unit = "m4" THEN I
    ELSE IF unit = "mm4" THEN Mul(Mul(I, Frac(1, 1000000)), Frac(1, 1000000))
    ELSE IF unit = "cm4" THEN Mul(Mul(I, Frac(1, 10000)), Frac(1, 10000))
    ELSE I

calculateEI(E, EUnit, I, IUnit) == Mul(convertEToKNm2(E, EUnit), convertIToM4(I, IUnit))

getSpanEI(span, defaultEI, defaultE, defaultEUnit, defaultI, defaultIUnit) ==
    IF span.eiMode = "direct" /\ span.ei # Undef THEN span.ei
    ELSE IF span.eiMode = "separate"
         THEN calculateEI(Nullish(span.E, Nullish(defaultE, Q(200))),
                          NullishStr(span.EUnit, NullishStr(defaultEUnit, "GPa")),
                          Nullish(span.I, Nullish(defaultI, Frac(1, 10000))),
                          NullishStr(span.IUnit, NullishStr(defaultIUnit, "m4")))
    ELSE Mul(defaultEI, Nullish(span.iMultiplier, Q(1)))

----------------------------------------------------------------------------
(* Continuous beam solver: ContinuousBeamSolver (src/unnamed/part_007) *)

DefaultEI == 50000

\* a Map as a function on the set of its keys
EmptyMap == <<>>
MapHas(m, k) == k \in DOMAIN m
MapSet(m, k, v) == [kk \in (DOMAIN m) \cup {k} |-> IF kk = k THEN v ELSE m[kk]]

\* nodeIndexMap.clear() without effect
MapClear_Keep(m) == m

MapClear(m) == EmptyMap

\* the constructor (lines 48-55)
NewBeamSolver ==
    [beam |-> [nodes |-> <<>>, spans |-> <<>>, loads |-> <<>>],
     sortedNodes |-> <<>>,
     nodeIndexMap |-> EmptyMap,
     defaultEI |-> Q(DefaultEI),
     defaultE |-> Undef, defaultEUnit |-> "",
     defaultI |-> Undef, defaultIUnit |-> ""]

\* Array.prototype.sort by position: stable insertion of nodes[i..] into acc
RECURSIVE InsertByPosition(_, _)
InsertByPosition(sorted, node) ==
    IF sorted = <<>> THEN <<node>>
    ELSE IF Lt(node.position, sorted[Len(sorted)].position)
         THEN Append(InsertByPosition(SubSeq(sorted, 1, Len(sorted) - 1), node),
                     sorted[Len(sorted)])
         ELSE Append(sorted, node)

RECURSIVE SortByPosition(_, _, _)
SortByPosition(nodes, i, acc) ==
    IF i > Len(nodes) THEN acc
    ELSE SortByPosition(nodes, i + 1, InsertByPosition(acc, nodes[i]))

\* beam.nodes.sort(...): sorting the caller's array itself
SortedNodes_InPlace(nodes) ==
    [input |-> SortByPosition(nodes, 1, <<>>), sorted |-> SortByPosition(nodes, 1, <<>>)]

\* [...beam.nodes].sort(...): the caller's array and the sorted copy
SortedNodes(nodes) == [input |-> nodes, sorted |-> SortByPosition(nodes, 1, <<>>)]

RECURSIVE IndexNodes(_, _, _)
\* sortedNodes.forEach((node, index) => nodeIndexMap.set(node.id, index))
IndexNodes(m, sortedNodes, i) ==
    IF i > Len(sortedNodes) THEN m
    ELSE IndexNodes(MapSet(m, sortedNodes[i].id, i - 1), sortedNodes, i + 1)

\* lines 61-73: the fields an instance holds once solve has started
BeginSolve(inst, beam) ==
    With(SortedNodes(beam.nodes), LAMBDA sn :
        [inst |-> [beam |-> [beam EXCEPT !.nodes = sn.input],
                   sortedNodes |-> sn.sorted,
                   nodeIndexMap |-> IndexNodes(MapClear(inst.nodeIndexMap), sn.sorted, 1),
                   defaultEI |-> Nullish(beam.defaultEI, Q(DefaultEI)),
                   defaultE |-> beam.defaultE, defaultEUnit |-> beam.defaultEUnit,
                   defaultI |-> beam.defaultI, defaultIUnit |-> beam.defaultIUnit],
         doc |-> [beam EXCEPT !.nodes = sn.input]])

RECURSIVE CountRestraints(_, _, _)
CountRestraints(sortedNodes, i, numRestraints) ==
    IF i > Len(sortedNodes) THEN numRestraints
    ELSE CountRestraints(sortedNodes, i + 1,
            IF sortedNodes[i].supportType = "fixed" THEN numRestraints + 2
            ELSE IF sortedNodes[i].supportType \in {"pinned", "roller"} THEN numRestraints + 1
            ELSE numRestraints)

MinRestraints == 2

\* validateBeam requiring one restraint only
validateBeam_OneRestraint(inst) ==
    IF Len(inst.sortedNodes) < 2 THEN "Beam must have at least 2 nodes"
    ELSE IF Len(inst.beam.spans) < 1 THEN "Beam must have at least 1 span"
    ELSE IF CountRestraints(inst.sortedNodes, 1, 0) < 1
         THEN "Beam is unstable - insufficient supports"
    ELSE ""

\* the message thrown, "" if none
validateBeam(inst) ==
    IF Len(inst.sortedNodes) < 2 THEN "Beam must have at least 2 nodes"
    ELSE IF Len(inst.beam.spans) < 1 THEN "Beam must have at least 1 span"
    ELSE IF CountRestraints(inst.sortedNodes, 1, 0) < MinRestraints
         THEN "Beam is unstable - insufficient supports"
    ELSE ""

RECURSIVE AllFEMLoop(_, _, _)
AllFEMLoop(inst, i, femBySpan) ==
    IF i > Len(inst.beam.spans) THEN [error |-> "", femBySpan |-> femBySpan]
    ELSE With(calculateSpanFEM(inst.beam.spans[i], inst.beam.loads), LAMBDA fem :
            IF fem.error # "" THEN [error |-> fem.error, femBySpan |-> femBySpan]
            ELSE AllFEMLoop(inst, i + 1, MapSet(femBySpan, inst.beam.spans[i].id, fem)))

calculateAllFEM(inst) == AllFEMLoop(inst, 1, EmptyMap)

identifyDOFs(inst) == SelectSeq(inst.sortedNodes, LAMBDA node : node.supportType # "fixed")

\* the chord rotation with both settlements read as the start node's
getChordRotation_Level(startNode, endNode, spanLength) ==
    Div(Sub(Nullish(startNode.settlement, Q(0)), Nullish(startNode.settlement, Q(0))),
        spanLength)

getChordRotation(startNode, endNode, spanLength) ==
    Div(Sub(Nullish(endNode.settlement, Q(0)), Nullish(startNode.settlement, Q(0))), spanLength)

InstSpanEI(inst, span) ==
    getSpanEI(span, inst.defaultEI, inst.defaultE, inst.defaultEUnit,
              inst.defaultI, inst.defaultIUnit)

\* this.sortedNodes[this.nodeIndexMap.get(id)!] is an element of the array
NodeResolves(inst, id) ==
    MapHas(inst.nodeIndexMap, id) /\ inst.nodeIndexMap[id] < Len(inst.sortedNodes)
NodeOf(inst, id) == inst.sortedNodes[inst.nodeIndexMap[id] + 1]

AddAt(K, i, j, v) == [K EXCEPT ![i][j] = Add(@, v)]
AddAtV(F, i, v) == [F EXCEPT ![i] = Add(@, v)]

\* the contributions of one span of stiffness k and chord rotation psi to K
\* and F (lines 240-289)
SpanContribution(span, dofIndexMap, fem, k, psi, K, F) ==
    LET hasStart == MapHas(dofIndexMap, span.nodeStartId)
        hasEnd   == MapHas(dofIndexMap, span.nodeEndId)
        si  == IF hasStart THEN dofIndexMap[span.nodeStartId] + 1 ELSE 0
        ei  == IF hasEnd THEN dofIndexMap[span.nodeEndId] + 1 ELSE 0
        K1  == IF hasStart THEN AddAt(K, si, si, Mul(Q(4), k)) ELSE K
        K2  == IF hasStart /\ hasEnd THEN AddAt(K1, si, ei, Mul(Q(2), k)) ELSE K1
        F1  == IF hasStart THEN AddAtV(F, si, Neg(fem.femStart)) ELSE F
        F2  == IF hasStart /\ ~hasEnd THEN AddAtV(F1, si, Mul(Mul(Q(6), k), psi)) ELSE F1
        K3  == IF hasEnd THEN AddAt(K2, ei, ei, Mul(Q(4), k)) ELSE K2
        K4  == IF hasEnd /\ hasStart THEN AddAt(K3, ei, si, Mul(Q(2), k)) ELSE K3
        F3  == IF hasEnd THEN AddAtV(F2, ei, Neg(fem.femEnd)) ELSE F2
        F4  == IF hasEnd /\ ~hasStart THEN AddAtV(F3, ei, Mul(Mul(Q(6), k), psi)) ELSE F3
    IN  [K |-> K4, F |-> F4]

RECURSIVE BuildSystemLoop(_, _, _, _, _, _)
BuildSystemLoop(inst, dofIndexMap, femBySpan, i, K, F) ==
    IF i > Len(inst.beam.spans) THEN [error |-> "", K |-> K, F |-> F]
    ELSE LET span == inst.beam.spans[i]
         IN  IF ~NodeResolves(inst, span.nodeStartId) \/ ~NodeResolves(inst, span.nodeEndId)
             THEN [error |-> "TypeError", K |-> K, F |-> F]
             ELSE With(SpanContribution(span, dofIndexMap, femBySpan[span.id],
                           Div(InstSpanEI(inst, span), span.length),
                           getChordRotation(NodeOf(inst, span.nodeStartId),
                                            NodeOf(inst, span.nodeEndId), span.length),
                           K, F),
                       LAMBDA c : BuildSystemLoop(inst, dofIndexMap, femBySpan, i + 1, c.K, c.F))

\* dofNodes.forEach((node, i) => dofIndexMap.set(node.id, i))
DofIndexMap(dofNodes) == IndexNodes(EmptyMap, dofNodes, 1)

buildSystem(inst, dofNodes, femBySpan) ==
    LET n == Len(dofNodes)
    IN  BuildSystemLoop(inst, DofIndexMap(dofNodes), femBySpan, 1,
                        createZeroMatrix(n, n), createZeroVector(n))

RECURSIVE SetRotations(_, _, _, _)
\* dofNodes.forEach((node, i) => rotations.set(node.id, thetaVector[i]))
SetRotations(rotations, dofNodes, thetaVector, i) ==
    IF i > Len(dofNodes) THEN rotations
    ELSE SetRotations(MapSet(rotations, dofNodes[i].id, thetaVector[i]),
                      dofNodes, thetaVector, i + 1)

RECURSIVE ZeroRotations(_, _, _, _)
\* rotations.set(node.id, 0) for every node, or for the fixed nodes only
ZeroRotations(rotations, sortedNodes, onlyFixed, i) ==
    IF i > Len(sortedNodes) THEN rotations
    ELSE ZeroRotations(
            IF onlyFixed /\ sortedNodes[i].supportType # "fixed" THEN rotations
            ELSE MapSet(rotations, sortedNodes[i].id, Q(0)),
            sortedNodes, onlyFixed, i + 1)

MapGetOr0(m, k) == IF MapHas(m, k) THEN m[k] ELSE Q(0)

\* the slope-deflection equations of one span (lines 355-360)
SpanEndMoments(span, fem, k, thetaStart, thetaEnd, psi) ==
    [spanId |-> span.id,
     mStart |-> Add(fem.femStart,
                    Mul(Mul(Q(2), k),
                        Sub(Add(Mul(Q(2), thetaStart), thetaEnd), Mul(Q(3), psi)))),
     mEnd   |-> Add(fem.femEnd,
                    Mul(Mul(Q(2), k),
                        Sub(Add(Mul(Q(2), thetaEnd), thetaStart), Mul(Q(3), psi))))]

RECURSIVE EndMomentsLoop(_, _, _, _, _)
EndMomentsLoop(inst, rotations, femBySpan, i, endMoments) ==
    IF i > Len(inst.beam.spans) THEN [error |-> "", endMoments |-> endMoments]
    ELSE LET span == inst.beam.spans[i]
         IN  IF ~NodeResolves(inst, span.nodeStartId) \/ ~NodeResolves(inst, span.nodeEndId)
             THEN [error |-> "TypeError", endMoments |-> endMoments]
             ELSE EndMomentsLoop(inst, rotations, femBySpan, i + 1,
                     Append(endMoments,
                            SpanEndMoments(span, femBySpan[span.id],
                                Div(InstSpanEI(inst, span), span.length),
                                MapGetOr0(rotations, span.nodeStartId),
                                MapGetOr0(rotations, span.nodeEndId),
                                getChordRotation(NodeOf(inst, span.nodeStartId),
                                                 NodeOf(inst, span.nodeEndId), span.length))))

calculateEndMoments(inst, rotations, femBySpan) ==
    EndMomentsLoop(inst, rotations, femBySpan, 1, <<>>)

RECURSIVE SpansAtNodeLoop(_, _, _, _)
SpansAtNodeLoop(spans, nodeId, i, found) ==
    IF i > Len(spans) THEN found
    ELSE LET f1 == IF spans[i].nodeStartId = nodeId
                   THEN Append(found, [span |-> spans[i], isStart |-> TRUE]) ELSE found
             f2 == IF spans[i].nodeEndId = nodeId
                   THEN Append(f1, [span |-> spans[i], isStart |-> FALSE]) ELSE f1
         IN  SpansAtNodeLoop(spans, nodeId, i + 1, f2)

findSpansAtNode(inst, nodeId) == SpansAtNodeLoop(inst.beam.spans, nodeId, 1, <<>>)

\* the share of one load in the simply-supported reaction at one end
LoadReaction(load, L, isStart) ==
    IF isPointLoad(load)
    THEN LET a  == load.position
             bb == Sub(L, a)
         IN  IF isStart THEN Div(Mul(load.magnitude, bb), L)
             ELSE Div(Mul(load.magnitude, a), L)
    ELSE IF isUDL(load)
    THEN LET loadLength == Sub(load.endPosition, load.startPosition)
             loadCenter == Div(Add(load.startPosition, load.endPosition), Q(2))
             totalLoad  == Mul(load.magnitude, loadLength)
         IN  IF isStart THEN Div(Mul(totalLoad, Sub(L, loadCenter)), L)
             ELSE Div(Mul(totalLoad, loadCenter), L)
    ELSE IF isVDL(load)
    THEN LET loadLength   == Sub(load.endPosition, load.startPosition)
             avgIntensity == Div(Add(load.w1, load.w2), Q(2))
             totalLoad    == Mul(avgIntensity, loadLength)
             centroid     == Add(load.startPosition,
                                 Div(Mul(loadLength, Add(load.w1, Mul(Q(2), load.w2))),
                                     Mul(Q(3), Add(load.w1, load.w2))))
         IN  IF isStart THEN Div(Mul(totalLoad, Sub(L, centroid)), L)
             ELSE Div(Mul(totalLoad, centroid), L)
    ELSE Q(0)

RECURSIVE LoadReactionLoop(_, _, _, _, _)
LoadReactionLoop(spanLoads, L, isStart, i, totalReaction) ==
    IF i > Len(spanLoads) THEN totalReaction
    ELSE LoadReactionLoop(spanLoads, L, isStart, i + 1,
                          Add(totalReaction, LoadReaction(spanLoads[i], L, isStart)))

calculateLoadReaction(inst, span, isStart) ==
    LoadReactionLoop(LoadsOnSpan(inst.beam.loads, span.id), span.length, isStart, 1, Q(0))

\* endMoments.find((m) => m.spanId === id): the first entry of that span
RECURSIVE FindMoments(_, _, _)
FindMoments(endMoments, spanId, i) ==
    IF endMoments[i].spanId = spanId THEN endMoments[i]
    ELSE FindMoments(endMoments, spanId, i + 1)

\* lines 413-422: what one span adds to the vertical reaction at its end
SpanReaction(isStart, R_fromMoments, R_fromLoads) ==
    IF isStart THEN Sub(R_fromLoads, R_fromMoments) ELSE Add(R_fromLoads, R_fromMoments)

RECURSIVE VerticalLoop(_, _, _, _, _)
VerticalLoop(inst, endMoments, spansAtNode, i, verticalReaction) ==
    IF i > Len(spansAtNode) THEN verticalReaction
    ELSE With(FindMoments(endMoments, spansAtNode[i].span.id, 1), LAMBDA spanMoments :
            VerticalLoop(inst, endMoments, spansAtNode, i + 1,
                Add(verticalReaction,
                    SpanReaction(spansAtNode[i].isStart,
                        Div(Sub(spanMoments.mStart, spanMoments.mEnd),
                            spansAtNode[i].span.length),
                        calculateLoadReaction(inst, spansAtNode[i].span,
                                              spansAtNode[i].isStart)))))

\* the moment reaction with the span's end moment taken as it is at both ends
MomentReaction_SameSign(node, spansAtNode, endMoments) ==
    IF node.supportType = "fixed" /\ Len(spansAtNode) > 0
    THEN With(FindMoments(endMoments, spansAtNode[1].span.id, 1), LAMBDA spanMoments :
            IF spansAtNode[1].isStart THEN spanMoments.mStart ELSE spanMoments.mEnd)
    ELSE Undef

\* lines 385-400: the moment reaction of a node, undefined unless it is fixed
MomentReaction(node, spansAtNode, endMoments) ==
    IF node.supportType = "fixed" /\ Len(spansAtNode) > 0
    THEN With(FindMoments(endMoments, spansAtNode[1].span.id, 1), LAMBDA spanMoments :
            IF spansAtNode[1].isStart THEN Neg(spanMoments.mStart) ELSE spanMoments.mEnd)
    ELSE Undef

NodeReaction(inst, endMoments, node) ==
    With(findSpansAtNode(inst, node.id), LAMBDA spansAtNode :
        [nodeId |-> node.id, position |-> node.position,
         vertical |-> VerticalLoop(inst, endMoments, spansAtNode, 1, Q(0)),
         moment |-> MomentReaction(node, spansAtNode, endMoments)])

RECURSIVE ReactionsLoop(_, _, _, _)
ReactionsLoop(inst, endMoments, i, reactions) ==
    IF i > Len(inst.sortedNodes) THEN reactions
    ELSE ReactionsLoop(inst, endMoments, i + 1,
            IF inst.sortedNodes[i].supportType = "free" THEN reactions
            ELSE Append(reactions, NodeReaction(inst, endMoments, inst.sortedNodes[i])))

calculateReactions(inst, endMoments) == ReactionsLoop(inst, endMoments, 1, <<>>)

BeamThrow(msg, steps) ==
    [status |-> "threw", error |-> msg, steps |-> steps,
     rotations |-> EmptyMap, endMoments |-> <<>>, reactions |-> <<>>]

\* step 5 of solve (lines 86-111): the rotations, or the error thrown while
\* building or solving the system
SolveRotations(inst, dofNodes, femBySpan) ==
    IF Len(dofNodes) = 0
    THEN [error |-> "", steps |-> <<"validate", "fem", "dofs">>,
          rotations |-> ZeroRotations(EmptyMap, inst.sortedNodes, FALSE, 1)]
    ELSE With(buildSystem(inst, dofNodes, femBySpan), LAMBDA sys :
            IF sys.error # ""
            THEN [error |-> sys.error, steps |-> <<"validate", "fem", "dofs", "system">>,
                  rotations |-> EmptyMap]
            ELSE With(solveLinearSystem(sys.K, sys.F), LAMBDA thetaVector :
                    [error |-> thetaVector.error,
                     steps |-> <<"validate", "fem", "dofs", "system", "solve">>,
                     rotations |->
                         IF thetaVector.error # "" THEN EmptyMap
                         ELSE SetRotations(ZeroRotations(EmptyMap, inst.sortedNodes, TRUE, 1),
                                           dofNodes, thetaVector.x, 1)]))

\* steps 6-7 of solve (lines 113-117)
SolveMoments(inst, rot, femBySpan) ==
    With(calculateEndMoments(inst, rot.rotations, femBySpan), LAMBDA moments :
        IF moments.error # "" THEN BeamThrow(moments.error, Append(rot.steps, "endMoments"))
        ELSE [status |-> "returned", error |-> "",
              steps |-> rot.steps \o <<"endMoments", "reactions">>,
              rotations |-> rot.rotations,
              endMoments |-> moments.endMoments,
              reactions |-> calculateReactions(inst, moments.endMoments)])

\* steps 2-7 of solve on an instance whose fields are set (lines 75-117):
\* the outcome, with the steps entered in order
SolveSteps(inst) ==
    With(validateBeam(inst), LAMBDA invalid :
        IF invalid # "" THEN BeamThrow(invalid, <<"validate">>)
        ELSE With(calculateAllFEM(inst), LAMBDA fems :
                IF fems.error # "" THEN BeamThrow(fems.error, <<"validate", "fem">>)
                ELSE With(SolveRotations(inst, identifyDOFs(inst), fems.femBySpan),
                          LAMBDA rot :
                            IF rot.error # "" THEN BeamThrow(rot.error, rot.steps)
                            ELSE SolveMoments(inst, rot, fems.femBySpan))))

\* ContinuousBeamSolver.solve(beam) on an instance: the instance and the
\* caller's document after the call, and what the call returned or threw
BeamSolve(inst, beam) ==
    With(BeginSolve(inst, beam), LAMBDA begun :
        [inst |-> begun.inst, doc |-> begun.doc, outcome |-> SolveSteps(begun.inst)])

----------------------------------------------------------------------------
(* The diagrams of the continuous beam solver (src/unnamed/part_007:499-655) *)

numPoints == 101

\* what one load adds to the running shear V and moment M at localX
\* (lines 583-621)
LoadEffect(load, localX, vm) ==
    IF isPointLoad(load)
    THEN IF Ge(localX, load.position)
         THEN [V |-> Sub(vm.V, load.magnitude),
               M |-> Sub(vm.M, Mul(load.magnitude, Sub(localX, load.position)))]
         ELSE vm
    ELSE IF isUDL(load)
    THEN IF Gt(localX, load.startPosition)
         THEN LET effectiveEnd == Min2(localX, load.endPosition)
                  loadedLength == Sub(effectiveEnd, load.startPosition)
                  loadForce    == Mul(load.magnitude, loadedLength)
              IN  [V |-> Sub(vm.V, loadForce),
                   M |-> Sub(vm.M, Mul(loadForce,
                             Sub(Sub(localX, load.startPosition),
                                 Div(loadedLength, Q(2)))))]
         ELSE vm
    ELSE IF isVDL(load)
    THEN IF Gt(localX, load.startPosition)
         THEN LET effectiveEnd == Min2(localX, load.endPosition)
                  loadLength   == Sub(load.endPosition, load.startPosition)
                  loadedLength == Sub(effectiveEnd, load.startPosition)
                  t_end        == Div(loadedLength, loadLength)
                  w_end        == Add(load.w1, Mul(Sub(load.w2, load.w1), t_end))
                  loadedArea   == Mul(Div(Add(load.w1, w_end), Q(2)), loadedLength)
                  partialCentroid ==
                      IF Tiny(Add(load.w1, w_end)) THEN Div(loadedLength, Q(2))
                      ELSE Div(Mul(loadedLength, Add(load.w1, Mul(Q(2), w_end))),
                               Mul(Q(3), Add(load.w1, w_end)))
                  momentArm    == Sub(localX, Add(load.startPosition, partialCentroid))
              IN  IF Gt(loadedLength, Q(0)) /\ Gt(loadLength, Q(0))
                  THEN [V |-> Sub(vm.V, loadedArea),
                        M |-> Sub(vm.M, Mul(loadedArea, momentArm))]
                  ELSE vm
         ELSE vm
    ELSE IF isAppliedMoment(load)
    THEN IF Ge(localX, load.position)
         THEN [V |-> vm.V, M |-> Sub(vm.M, load.magnitude)]
         ELSE vm
    ELSE vm

RECURSIVE LoadEffectLoop(_, _, _, _)
LoadEffectLoop(spanLoads, localX, i, vm) ==
    IF i > Len(spanLoads) THEN vm
    ELSE LoadEffectLoop(spanLoads, localX, i + 1, LoadEffect(spanLoads[i], localX, vm))

\* lines 566-627: the shear and the moment at localX of a span
calculateShearMomentAtPoint(inst, span, localX, baseShear, spanMoments) ==
    With(LoadEffectLoop(LoadsOnSpan(inst.beam.loads, span.id), localX, 1,
            [V |-> Sub(baseShear,
                       Div(Sub(spanMoments.mStart, spanMoments.mEnd), span.length)),
             M |-> spanMoments.mStart]),
         LAMBDA vm : [V |-> vm.V, M |-> Add(vm.M, Mul(vm.V, localX))])

\* the last node's position, which the diagrams take for the beam's length
TotalLength(inst) == inst.sortedNodes[Len(inst.sortedNodes)].position

\* lines 640-655: -(M * parabola * totalLength * totalLength) / (8 * EI) * 1000,
\* the exact product taken in an order that keeps the fractions small
estimateDeflection(inst, xi, span, M) ==
    LET EI          == InstSpanEI(inst, span)
        totalLength == TotalLength(inst)
        normalizedX == Div(xi, totalLength)
        parabola    == Mul(normalizedX, Sub(Q(1), normalizedX))
    IN  Neg(Mul(Mul(M, parabola),
                Div(Mul(Mul(totalLength, totalLength), Q(1000)), Mul(Q(8), EI))))

\* reactions.find((r) => Math.abs(r.position - position) < 0.001)
ReactionsNear(reactions, position) ==
    SelectSeq(reactions, LAMBDA r : Lt(Abs(Sub(r.position, position)), Frac(1, 1000)))

\* the while loop of lines 525-538: the (0-based) index of the span taken to
\* hold the sample and the shear carried into it
RECURSIVE AdvanceSpan(_, _, _, _, _)
AdvanceSpan(inst, reactions, xi, currentSpanIdx, baseShear) ==
    IF /\ currentSpanIdx < Len(inst.beam.spans) - 1
       /\ currentSpanIdx + 2 <= Len(inst.sortedNodes)
       /\ Gt(xi, inst.sortedNodes[currentSpanIdx + 2].position)
    THEN With(ReactionsNear(reactions, inst.sortedNodes[currentSpanIdx + 2].position),
              LAMBDA supportReaction :
                AdvanceSpan(inst, reactions, xi, currentSpanIdx + 1,
                    IF supportReaction # <<>>
                    THEN Add(baseShear, supportReaction[1].vertical) ELSE baseShear))
    ELSE [currentSpanIdx |-> currentSpanIdx, baseShear |-> baseShear]

DiagramPoint(xi, value) == [x |-> xi, value |-> value]

NoDiagrams == [shear |-> <<>>, moment |-> <<>>, deflection |-> <<>>]

\* the sample positions of lines 518-523: xi = i * dx for i = 0..100
SampleX(inst, i) == Mul(Q(i), Div(TotalLength(inst), Q(numPoints - 1)))

\* currentSpanIdx and baseShear are kept from one sample to the next and the
\* while loop only moves them on, so at sample i they are where the largest
\* xi so far has taken them: xi itself, or the first sample where dx < 0
FarthestX(inst, i) ==
    IF Lt(TotalLength(inst), Q(0)) THEN SampleX(inst, 0) ELSE SampleX(inst, i)

\* one pass of the for loop of lines 522-558: the values at sample i
DiagramSample(inst, endMoments, reactions, i) ==
    LET xi   == SampleX(inst, i)
        at   == AdvanceSpan(inst, reactions, FarthestX(inst, i), 0,
                            IF reactions = <<>> THEN Q(0) ELSE reactions[1].vertical)
        span == inst.beam.spans[at.currentSpanIdx + 1]
        vm   == calculateShearMomentAtPoint(inst, span,
                    Sub(xi, inst.sortedNodes[at.currentSpanIdx + 1].position),
                    at.baseShear, FindMoments(endMoments, span.id, 1))
    IN  [x |-> xi, V |-> vm.V, M |-> vm.M,
         deflection |-> estimateDeflection(inst, xi, span, vm.M)]

\* lines 502-561
generateDiagrams(inst, endMoments, reactions) ==
    With(Array([k \in 1..numPoints |-> DiagramSample(inst, endMoments, reactions, k - 1)]),
         LAMBDA samples :
            [shear |-> Array([k \in 1..numPoints |->
                                DiagramPoint(samples[k].x, samples[k].V)]),
             moment |-> Array([k \in 1..numPoints |->
                                DiagramPoint(samples[k].x, samples[k].M)]),
             deflection |-> Array([k \in 1..numPoints |->
                                DiagramPoint(samples[k].x, samples[k].deflection)])])

\* step 8 of solve (line 120) after a solve that got so far
SolveDiagrams(r) ==
    IF r.outcome.status = "returned"
    THEN generateDiagrams(r.inst, r.outcome.endMoments, r.outcome.reactions)
    ELSE NoDiagrams

----------------------------------------------------------------------------
(* Frame types: src/lib/types/beamEditor.ts (imported as "@/lib/types/frame") *)

\* nodes.find((n) => n.id === id): the index of the first such node, 0 if none
RECURSIVE FindNodeIndex(_, _, _)
FindNodeIndex(nodes, id, i) ==
    IF i > Len(nodes) THEN 0
    ELSE IF nodes[i].id = id THEN i
    ELSE FindNodeIndex(nodes, id, i + 1)

\* Math.sqrt of a rational that is the square of a rational
Sqrt(p) ==
    <<CHOOSE r \in 0..p[1] : r * r = p[1], CHOOSE r \in 1..p[2] : r * r = p[2]>>

getMemberLength(member, nodes) ==
    LET si == FindNodeIndex(nodes, member.nodeStartId, 1)
        ei == FindNodeIndex(nodes, member.nodeEndId, 1)
    IN  IF si = 0 \/ ei = 0 THEN Q(0)
        ELSE Sqrt(Add(Mul(Sub(nodes[ei].x, nodes[si].x), Sub(nodes[ei].x, nodes[si].x)),
                      Mul(Sub(nodes[ei].y, nodes[si].y), Sub(nodes[ei].y, nodes[si].y))))

\* the angle atan2(dy, dx), held as its cosine and sine; the angle is 0 when
\* a node is missing and when both nodes coincide (atan2(0, 0) = 0)
getMemberAngle(member, nodes) ==
    With(getMemberLength(member, nodes), LAMBDA L :
        IF L = Q(0) THEN [cos |-> Q(1), sin |-> Q(0)]
        ELSE LET si == FindNodeIndex(nodes, member.nodeStartId, 1)
                 ei == FindNodeIndex(nodes, member.nodeEndId, 1)
             IN  [cos |-> Div(Sub(nodes[ei].x, nodes[si].x), L),
                  sin |-> Div(Sub(nodes[ei].y, nodes[si].y), L)])

convertAToM2(AA, unit) ==
    IF unit = "m2" THEN AA
    ELSE IF unit = "mm2" THEN Mul(AA, Frac(1, 1000000))
    ELSE IF unit = "cm2" THEN Mul(AA, Frac(1, 10000))
    ELSE AA

\* lines 412-436; convertEToKNm2 and convertIToM4 of lines 362-391 are the
\* same functions as those of beam.ts
getMemberEI(member, defaultEI, defaultE, defaultEUnit, defaultI, defaultIUnit) ==
    IF member.eiMode = "direct" /\ member.ei # Undef THEN member.ei
    ELSE IF member.eiMode = "separate"
         THEN Mul(convertEToKNm2(Nullish(member.E, Nullish(defaultE, Q(200))),
                                 NullishStr(member.EUnit, NullishStr(defaultEUnit, "GPa"))),
                  convertIToM4(Nullish(member.I, Nullish(defaultI, Frac(1, 10000))),
                               NullishStr(member.IUnit, NullishStr(defaultIUnit, "m4"))))
    ELSE Mul(defaultEI, Nullish(member.iMultiplier, Q(1)))

\* lines 441-463: the fallback passes the module constant defaultI (undefined,
\* line 466) as default I and the default area unit as default I unit
getMemberEA(member, defaultEI, defaultE, defaultEUnit, defaultA, defaultAUnit) ==
    IF member.eiMode = "separate" /\ member.A # Undef
    THEN Mul(convertEToKNm2(Nullish(member.E, Nullish(defaultE, Q(200))),
                            NullishStr(member.EUnit, NullishStr(defaultEUnit, "GPa"))),
             convertAToM2(member.A, NullishStr(member.AUnit, NullishStr(defaultAUnit, "m2"))))
    ELSE Mul(getMemberEI(member, defaultEI, defaultE, defaultEUnit, Undef, defaultAUnit),
             Q(1000))

isJointLoad(load) == load.type = "joint"
isMemberPointLoad(load) == load.type = "member-point"
isMemberUDL(load) == load.type = "member-udl"
isMemberVDL(load) == load.type = "member-vdl"
isMemberMoment(load) == load.type = "member-moment"

----------------------------------------------------------------------------
(* Frame member FEM: src/lib/solver/frame/fem.ts *)

FrameFemThrow(msg) ==
    [error |-> msg, memberId |-> "", femStart |-> Q(0), femEnd |-> Q(0),
     fixedShearStart |-> Q(0), fixedShearEnd |-> Q(0),
     fixedAxialStart |-> Q(0), fixedAxialEnd |-> Q(0)]

\* what one member load adds to the totals (lines 62-101): the fixed-end
\* moments of the beam library and the simply-supported shears
MemberLoadFEM(load, L) ==
    IF isMemberPointLoad(load)
    THEN With(calculatePointLoadFEM(load.magnitude, L, Mul(load.position, L)), LAMBDA fem :
            [error |-> fem.error, femStart |-> fem.femStart, femEnd |-> fem.femEnd,
             shearStart |-> Div(Mul(load.magnitude, Sub(L, Mul(load.position, L))), L),
             shearEnd |-> Div(Mul(load.magnitude, Mul(load.position, L)), L)])
    ELSE IF isMemberUDL(load)
    THEN With(calculateUDLFEM(load.magnitude, L, Mul(load.startPosition, L),
                              Mul(load.endPosition, L)), LAMBDA fem :
            LET startPos   == Mul(load.startPosition, L)
                endPos     == Mul(load.endPosition, L)
                loadCenter == Div(Add(startPos, endPos), Q(2))
                totalLoad  == Mul(load.magnitude, Sub(endPos, startPos))
            IN  [error |-> fem.error, femStart |-> fem.femStart, femEnd |-> fem.femEnd,
                 shearStart |-> Div(Mul(totalLoad, Sub(L, loadCenter)), L),
                 shearEnd |-> Div(Mul(totalLoad, loadCenter), L)])
    ELSE IF isMemberVDL(load)
    THEN With(calculateVDLFEM(load.w1, load.w2, L, Mul(load.startPosition, L),
                              Mul(load.endPosition, L)), LAMBDA fem :
            LET startPos   == Mul(load.startPosition, L)
                loadLength == Sub(Mul(load.endPosition, L), startPos)
                totalLoad  == Mul(Div(Add(load.w1, load.w2), Q(2)), loadLength)
                wSum       == Add(load.w1, load.w2)
                centroid   == Add(startPos,
                                  Div(Mul(loadLength, Add(load.w1, Mul(Q(2), load.w2))),
                                      Mul(Q(3), IF wSum = Q(0) \/ IsNaN(wSum)
                                                THEN Q(1) ELSE wSum)))
            IN  [error |-> fem.error, femStart |-> fem.femStart, femEnd |-> fem.femEnd,
                 shearStart |-> Div(Mul(totalLoad, Sub(L, centroid)), L),
                 shearEnd |-> Div(Mul(totalLoad, centroid), L)])
    ELSE IF isMemberMoment(load)
    THEN With(calculateMomentFEM(load.magnitude, L, Mul(load.position, L)), LAMBDA fem :
            [error |-> fem.error, femStart |-> fem.femStart, femEnd |-> fem.femEnd,
             shearStart |-> Q(0), shearEnd |-> Q(0)])
    ELSE [error |-> "", femStart |-> Q(0), femEnd |-> Q(0),
          shearStart |-> Q(0), shearEnd |-> Q(0)]

RECURSIVE MemberFEMLoop(_, _, _, _, _)
MemberFEMLoop(memberId, memberLoads, L, i, total) ==
    IF i > Len(memberLoads) THEN total
    ELSE With(MemberLoadFEM(memberLoads[i], L), LAMBDA one :
            IF one.error # "" THEN FrameFemThrow(one.error)
            ELSE MemberFEMLoop(memberId, memberLoads, L, i + 1,
                    [total EXCEPT !.femStart = Add(@, one.femStart),
                                  !.femEnd = Add(@, one.femEnd),
                                  !.fixedShearStart = Add(@, one.shearStart),
                                  !.fixedShearEnd = Add(@, one.shearEnd)]))

\* loads.filter((load) => "memberId" in load && load.memberId === member.id);
\* a load without the key has memberId ""
LoadsOnMember(loads, memberId) ==
    SelectSeq(loads, LAMBDA load : load.memberId # "" /\ load.memberId = memberId)

calculateMemberFEM(member, loads, nodes) ==
    MemberFEMLoop(member.id, LoadsOnMember(loads, member.id),
                  getMemberLength(member, nodes), 1,
                  [FrameFemThrow("") EXCEPT !.memberId = member.id])

----------------------------------------------------------------------------
(* Frame solver: FrameAnalysisSolver (src/unnamed/part_006) *)

\* a DOF index that is null
NoDOF == -1
\* a storyIndex that is undefined
NoStory == -1

\* the field initialisers of lines 55-66; frame and totalDOFs are unassigned
NewFrameSolver ==
    [frame |-> <<>>,
     defaultEI |-> Undef, defaultE |-> Undef, defaultEUnit |-> "",
     defaultI |-> Undef, defaultIUnit |-> "", defaultA |-> Undef, defaultAUnit |-> "",
     dofMappings |-> <<>>, totalDOFs |-> NoDOF,
     memberFEMs |-> <<>>, swayDOFs |-> <<>>]

\* lines 72-79
FrameBegin(inst, frame) ==
    [inst EXCEPT !.frame = frame,
                 !.defaultEI = Nullish(frame.defaultEI, Q(DefaultEI)),
                 !.defaultE = frame.defaultE, !.defaultEUnit = frame.defaultEUnit,
                 !.defaultI = frame.defaultI, !.defaultIUnit = frame.defaultIUnit,
                 !.defaultA = frame.defaultA, !.defaultAUnit = frame.defaultAUnit]

DOFMapping(nodeId, dxDOF, dyDOF, rotDOF) ==
    [nodeId |-> nodeId, dxDOF |-> dxDOF, dyDOF |-> dyDOF, rotDOF |-> rotDOF]

\* the loop body with a pinned node taking two indices and using one
AssignNode_PinnedGap(isSway, node, st) ==
    IF node.support = "pinned"
    THEN [st EXCEPT
            !.dofMappings = Append(@, DOFMapping(node.id, NoDOF, NoDOF, st.dofIndex)),
            !.dofIndex = @ + 2]
    ELSE IF node.support = "roller"
    THEN [st EXCEPT
            !.dofMappings = Append(@, DOFMapping(node.id, st.dofIndex, NoDOF,
                                                 st.dofIndex + 1)),
            !.dofIndex = @ + 2]
    ELSE IF node.support = ""
    THEN IF isSway /\ node.storyIndex # NoStory /\ node.storyIndex > 0
                /\ MapHas(st.storySwayDOFs, node.storyIndex)
         THEN [st EXCEPT
                 !.dofMappings = Append(@, DOFMapping(node.id,
                       st.storySwayDOFs[node.storyIndex], st.dofIndex, st.dofIndex + 1)),
                 !.dofIndex = @ + 2]
         ELSE [st EXCEPT
                 !.storySwayDOFs =
                     IF isSway /\ node.storyIndex # NoStory /\ node.storyIndex > 0
                     THEN MapSet(@, node.storyIndex, st.dofIndex) ELSE @,
                 !.swayDOFs =
                     IF isSway /\ node.storyIndex # NoStory /\ node.storyIndex > 0
                     THEN Append(@, st.dofIndex) ELSE @,
                 !.dofMappings = Append(@, DOFMapping(node.id, st.dofIndex,
                       st.dofIndex + 1, st.dofIndex + 2)),
                 !.dofIndex = @ + 3]
    ELSE [st EXCEPT !.dofMappings = Append(@, DOFMapping(node.id, NoDOF, NoDOF, NoDOF))]

\* one pass of the loop of lines 160-197 over a node; st holds dofIndex,
\* storySwayDOFs, swayDOFs and dofMappings
AssignNode(isSway, node, st) ==
    IF node.support = ""
    THEN IF isSway /\ node.storyIndex # NoStory /\ node.storyIndex > 0
         THEN IF MapHas(st.storySwayDOFs, node.storyIndex)
              THEN [st EXCEPT
                      !.dofMappings = Append(@, DOFMapping(node.id,
                            st.storySwayDOFs[node.storyIndex],
                            st.dofIndex, st.dofIndex + 1)),
                      !.dofIndex = @ + 2]
              ELSE [st EXCEPT
                      !.storySwayDOFs = MapSet(@, node.storyIndex, st.dofIndex),
                      !.swayDOFs = Append(@, st.dofIndex),
                      !.dofMappings = Append(@, DOFMapping(node.id, st.dofIndex,
                            st.dofIndex + 1, st.dofIndex + 2)),
                      !.dofIndex = @ + 3]
         ELSE [st EXCEPT
                 !.dofMappings = Append(@, DOFMapping(node.id, st.dofIndex,
                       st.dofIndex + 1, st.dofIndex + 2)),
                 !.dofIndex = @ + 3]
    ELSE IF node.support = "fixed"
         THEN [st EXCEPT !.dofMappings = Append(@, DOFMapping(node.id, NoDOF, NoDOF, NoDOF))]
    ELSE IF node.support = "pinned"
         THEN [st EXCEPT
                 !.dofMappings = Append(@, DOFMapping(node.id, NoDOF, NoDOF, st.dofIndex)),
                 !.dofIndex = @ + 1]
    ELSE IF node.support = "roller"
         THEN [st EXCEPT
                 !.dofMappings = Append(@, DOFMapping(node.id, st.dofIndex, NoDOF,
                                                      st.dofIndex + 1)),
                 !.dofIndex = @ + 2]
    ELSE [st EXCEPT !.dofMappings = Append(@, DOFMapping(node.id, NoDOF, NoDOF, NoDOF))]

RECURSIVE AssignLoop(_, _, _, _)
AssignLoop(isSway, nodes, i, st) ==
    IF i > Len(nodes) THEN st
    ELSE AssignLoop(isSway, nodes, i + 1, AssignNode(isSway, nodes[i], st))

\* dofMappings = [] without effect: the mappings of earlier calls stay in front
DofMappingsReset_Keep(dofMappings) == dofMappings

\* this.dofMappings = [] (line 153)
DofMappingsReset(dofMappings) == <<>>

assignDOFs(inst) ==
    With(AssignLoop(inst.frame.isSway, inst.frame.nodes, 1,
                    [dofIndex |-> 0, storySwayDOFs |-> EmptyMap, swayDOFs |-> <<>>,
                     dofMappings |-> DofMappingsReset(inst.dofMappings)]),
         LAMBDA st : [inst EXCEPT !.dofMappings = st.dofMappings,
                                  !.swayDOFs = st.swayDOFs,
                                  !.totalDOFs = st.dofIndex])

\* this.dofMappings.find((m) => m.nodeId === nodeId): its index, 0 if none
RECURSIVE getDOFMapping(_, _, _)
getDOFMapping(dofMappings, nodeId, i) ==
    IF i > Len(dofMappings) THEN 0
    ELSE IF dofMappings[i].nodeId = nodeId THEN i
    ELSE getDOFMapping(dofMappings, nodeId, i + 1)

\* memberFEMs as the sequence of its entries in insertion order
RECURSIVE FemMapIndex(_, _, _)
FemMapIndex(m, memberId, i) ==
    IF i > Len(m) THEN 0
    ELSE IF m[i].memberId = memberId THEN i
    ELSE FemMapIndex(m, memberId, i + 1)

FemMapSet(m, fem) ==
    IF FemMapIndex(m, fem.memberId, 1) = 0 THEN Append(m, fem)
    ELSE [m EXCEPT ![FemMapIndex(m, fem.memberId, 1)] = fem]

\* lines 214-221: the map after the loop, and the error that ended it
RECURSIVE FrameFEMLoop(_, _, _)
FrameFEMLoop(inst, i, memberFEMs) ==
    IF i > Len(inst.frame.members) THEN [error |-> "", memberFEMs |-> memberFEMs]
    ELSE With(calculateMemberFEM(inst.frame.members[i], inst.frame.loads, inst.frame.nodes),
              LAMBDA fem :
                IF fem.error # "" THEN [error |-> fem.error, memberFEMs |-> memberFEMs]
                ELSE FrameFEMLoop(inst, i + 1, FemMapSet(memberFEMs, fem)))

FrameCalculateAllFEM(inst) == FrameFEMLoop(inst, 1, MapClear(inst.memberFEMs))

InstMemberEI(inst, member) ==
    getMemberEI(member, inst.defaultEI, inst.defaultE, inst.defaultEUnit,
                inst.defaultI, inst.defaultIUnit)

InstMemberEA(inst, member) ==
    getMemberEA(member, inst.defaultEI, inst.defaultE, inst.defaultEUnit,
                inst.defaultA, inst.defaultAUnit)

\* the 6 x 6 matrix of lines 243-323 from its distinct entries: ea = EA/L,
\* t3, t2, t1 the flexural terms over L3, L2 and L, and far the carry-over
\* term 2EI/L of the member without releases
LocalStiffness(hasStartHinge, hasEndHinge, ea, t3, t2, t1, far) ==
    LET Z == Q(0)
    IN  IF hasStartHinge /\ hasEndHinge
        THEN << <<ea, Z, Z, Neg(ea), Z, Z>>, <<Z, Z, Z, Z, Z, Z>>, <<Z, Z, Z, Z, Z, Z>>,
                <<Neg(ea), Z, Z, ea, Z, Z>>, <<Z, Z, Z, Z, Z, Z>>, <<Z, Z, Z, Z, Z, Z>> >>
        ELSE IF hasStartHinge
        THEN << <<ea, Z, Z, Neg(ea), Z, Z>>,
                <<Z, t3, Z, Z, Neg(t3), t2>>,
                <<Z, Z, Z, Z, Z, Z>>,
                <<Neg(ea), Z, Z, ea, Z, Z>>,
                <<Z, Neg(t3), Z, Z, t3, Neg(t2)>>,
                <<Z, t2, Z, Z, Neg(t2), t1>> >>
        ELSE IF hasEndHinge
        THEN << <<ea, Z, Z, Neg(ea), Z, Z>>,
                <<Z, t3, t2, Z, Neg(t3), Z>>,
                <<Z, t2, t1, Z, Neg(t2), Z>>,
                <<Neg(ea), Z, Z, ea, Z, Z>>,
                <<Z, Neg(t3), Neg(t2), Z, t3, Z>>,
                <<Z, Z, Z, Z, Z, Z>> >>
        ELSE << <<ea, Z, Z, Neg(ea), Z, Z>>,
                <<Z, t3, t2, Z, Neg(t3), t2>>,
                <<Z, t2, t1, Z, Neg(t2), far>>,
                <<Neg(ea), Z, Z, ea, Z, Z>>,
                <<Z, Neg(t3), Neg(t2), Z, t3, Neg(t2)>>,
                <<Z, t2, far, Z, Neg(t2), t1>> >>

\* the entries for a member of rigidity EI and length L: 3EI/L3, 3EI/L2, 3EI/L
\* with exactly one release, 12EI/L3, 6EI/L2, 4EI/L and 2EI/L with none
StiffnessOf(member, L, EI, EA) ==
    IF (member.releaseStart = TRUE) # (member.releaseEnd = TRUE)
    THEN LocalStiffness(member.releaseStart = TRUE, member.releaseEnd = TRUE, Div(EA, L),
                        Div(Mul(Q(3), EI), Mul(Mul(L, L), L)),
                        Div(Mul(Q(3), EI), Mul(L, L)),
                        Div(Mul(Q(3), EI), L), Q(0))
    ELSE LocalStiffness(member.releaseStart = TRUE, member.releaseEnd = TRUE, Div(EA, L),
                        Div(Mul(Q(12), EI), Mul(Mul(L, L), L)),
                        Div(Mul(Q(6), EI), Mul(L, L)),
                        Div(Mul(Q(4), EI), L), Div(Mul(Q(2), EI), L))

buildLocalStiffnessMatrix(inst, member) ==
    StiffnessOf(member, getMemberLength(member, inst.frame.nodes),
                InstMemberEI(inst, member), InstMemberEA(inst, member))

\* lines 353-367 for an angle of cosine c and sine s
TransformationOf(c, s) ==
    LET Z == Q(0)
    IN  << <<c, s, Z, Z, Z, Z>>, <<Neg(s), c, Z, Z, Z, Z>>, <<Z, Z, Q(1), Z, Z, Z>>,
           <<Z, Z, Z, c, s, Z>>, <<Z, Z, Z, Neg(s), c, Z>>, <<Z, Z, Z, Z, Z, Q(1)>> >>

buildTransformationMatrix(inst, member) ==
    With(getMemberAngle(member, inst.frame.nodes), LAMBDA angle :
        TransformationOf(angle.cos, angle.sin))

\* the global DOF of each of the six member DOFs, NoDOF where restrained
GlobalDOFs(startMapping, endMapping) ==
    <<startMapping.dxDOF, startMapping.dyDOF, startMapping.rotDOF,
      endMapping.dxDOF, endMapping.dyDOF, endMapping.rotDOF>>

\* the sum of the vals[i] whose member DOF i is the global DOF target
RECURSIVE SumWhere(_, _, _, _)
SumWhere(vals, globalDOFs, target, i) ==
    IF i > Len(vals) THEN Q(0)
    ELSE Add(IF globalDOFs[i] = target THEN vals[i] ELSE Q(0),
             SumWhere(vals, globalDOFs, target, i + 1))

\* lines 430-440: K[gi][gj] += kGlobal[i][j] over all free member DOFs
AssembleMatrix(K, kGlobal, globalDOFs) ==
    Array([r \in 1..Len(K) |->
        Array([c \in 1..Len(K) |->
            Add(K[r][c],
                SumWhere(Array([i \in 1..6 |-> SumWhere(kGlobal[i], globalDOFs, c - 1, 1)]),
                         globalDOFs, r - 1, 1))])])

\* lines 505-509: F[gi] += fGlobal[i]
AssembleVector(F, fGlobal, globalDOFs) ==
    Array([r \in 1..Len(F) |-> Add(F[r], SumWhere(fGlobal, globalDOFs, r - 1, 1))])

MemberGlobalStiffness(kLocal, T) ==
    multiplyMatrices(multiplyMatrices(transposeMatrix(T), kLocal), T)

RECURSIVE StiffnessLoop(_, _, _)
StiffnessLoop(inst, i, K) ==
    IF i > Len(inst.frame.members) THEN K
    ELSE LET member == inst.frame.members[i]
             si == getDOFMapping(inst.dofMappings, member.nodeStartId, 1)
             ei == getDOFMapping(inst.dofMappings, member.nodeEndId, 1)
         IN  IF si = 0 \/ ei = 0 THEN StiffnessLoop(inst, i + 1, K)
             ELSE StiffnessLoop(inst, i + 1,
                     AssembleMatrix(K,
                         MemberGlobalStiffness(buildLocalStiffnessMatrix(inst, member),
                                               buildTransformationMatrix(inst, member)),
                         GlobalDOFs(inst.dofMappings[si], inst.dofMappings[ei])))

buildGlobalStiffnessMatrix(inst) ==
    StiffnessLoop(inst, 1, createZeroMatrix(inst.totalDOFs, inst.totalDOFs))

\* lines 453-468: the joint loads
RECURSIVE JointLoadLoop(_, _, _)
JointLoadLoop(inst, i, F) ==
    IF i > Len(inst.frame.loads) THEN F
    ELSE LET load == inst.frame.loads[i]
             mi   == getDOFMapping(inst.dofMappings, load.nodeId, 1)
         IN  IF ~isJointLoad(load) \/ mi = 0 THEN JointLoadLoop(inst, i + 1, F)
             ELSE JointLoadLoop(inst, i + 1,
                     AssembleVector(F,
                         <<Nullish(load.fx, Q(0)), Nullish(load.fy, Q(0)),
                           Nullish(load.moment, Q(0))>>,
                         <<inst.dofMappings[mi].dxDOF, inst.dofMappings[mi].dyDOF,
                           inst.dofMappings[mi].rotDOF>>))

FixedEndVector(fem) ==
    <<fem.fixedAxialStart, fem.fixedShearStart, fem.femStart,
      fem.fixedAxialEnd, fem.fixedShearEnd, fem.femEnd>>

NegVector(v) == Array([i \in 1..Len(v) |-> Neg(v[i])])
AddVectors(v, w) == Array([i \in 1..Len(v) |-> Add(v[i], w[i])])

\* lines 471-510: the equivalent nodal loads of the member FEMs
RECURSIVE MemberLoadLoop(_, _, _)
MemberLoadLoop(inst, i, F) ==
    IF i > Len(inst.frame.members) THEN F
    ELSE LET member == inst.frame.members[i]
             fi == FemMapIndex(inst.memberFEMs, member.id, 1)
             si == getDOFMapping(inst.dofMappings, member.nodeStartId, 1)
             ei == getDOFMapping(inst.dofMappings, member.nodeEndId, 1)
         IN  IF fi = 0 \/ si = 0 \/ ei = 0 THEN MemberLoadLoop(inst, i + 1, F)
             ELSE MemberLoadLoop(inst, i + 1,
                     AssembleVector(F,
                         multiplyMatrixVector(
                             transposeMatrix(buildTransformationMatrix(inst, member)),
                             NegVector(FixedEndVector(inst.memberFEMs[fi]))),
                         GlobalDOFs(inst.dofMappings[si], inst.dofMappings[ei])))

buildGlobalLoadVector(inst) ==
    MemberLoadLoop(inst, 1, JointLoadLoop(inst, 1, createZeroVector(inst.totalDOFs)))

\* displacements[gi], or 0 where the DOF is restrained
DisplacementAt(displacements, gi) == IF gi = NoDOF THEN Q(0) ELSE displacements[gi + 1]

RECURSIVE NodeDisplacementLoop(_, _, _, _)
\* lines 519-531
NodeDisplacementLoop(inst, displacements, i, out) ==
    IF i > Len(inst.frame.nodes) THEN out
    ELSE LET node == inst.frame.nodes[i]
             mi   == getDOFMapping(inst.dofMappings, node.id, 1)
         IN  NodeDisplacementLoop(inst, displacements, i + 1,
                Append(out,
                    IF mi = 0 THEN [nodeId |-> node.id, dx |-> Q(0), dy |-> Q(0),
                                    rotation |-> Q(0)]
                    ELSE [nodeId |-> node.id,
                          dx |-> DisplacementAt(displacements, inst.dofMappings[mi].dxDOF),
                          dy |-> DisplacementAt(displacements, inst.dofMappings[mi].dyDOF),
                          rotation |->
                              DisplacementAt(displacements, inst.dofMappings[mi].rotDOF)]))

extractNodeDisplacements(inst, displacements) ==
    NodeDisplacementLoop(inst, displacements, 1, <<>>)

\* K_local * (T * d_global) + fixed-end forces, in local coordinates
\* (lines 559-567 and 625-641); fi = 0 when the member has no FEM entry
MemberLocalForces(inst, member, displacements, si, ei, fi) ==
    With(multiplyMatrixVector(buildLocalStiffnessMatrix(inst, member),
            multiplyMatrixVector(buildTransformationMatrix(inst, member),
                Array([i \in 1..6 |->
                    DisplacementAt(displacements,
                        GlobalDOFs(inst.dofMappings[si], inst.dofMappings[ei])[i])]))),
         LAMBDA fFromDisp :
            IF fi = 0 THEN fFromDisp
            ELSE AddVectors(fFromDisp, FixedEndVector(inst.memberFEMs[fi])))

RECURSIVE MemberForcesLoop(_, _, _, _)
\* lines 540-580
MemberForcesLoop(inst, displacements, i, results) ==
    IF i > Len(inst.frame.members) THEN results
    ELSE LET member == inst.frame.members[i]
             si == getDOFMapping(inst.dofMappings, member.nodeStartId, 1)
             ei == getDOFMapping(inst.dofMappings, member.nodeEndId, 1)
         IN  IF si = 0 \/ ei = 0 THEN MemberForcesLoop(inst, displacements, i + 1, results)
             ELSE With(MemberLocalForces(inst, member, displacements, si, ei,
                                         FemMapIndex(inst.memberFEMs, member.id, 1)),
                       LAMBDA f :
                         MemberForcesLoop(inst, displacements, i + 1,
                            Append(results,
                                [memberId |-> member.id,
                                 axialStart |-> f[1], shearStart |-> f[2],
                                 momentStart |-> f[3], axialEnd |-> f[4],
                                 shearEnd |-> f[5], momentEnd |-> f[6]])))

calculateMemberForces(inst, displacements) ==
    MemberForcesLoop(inst, displacements, 1, <<>>)

RECURSIVE NodeMemberLoop(_, _, _, _, _)
\* lines 599-659: the global end forces of the members meeting at the node,
\* summed into acc = [fx, fy, moment]
NodeMemberLoop(inst, displacements, node, i, acc) ==
    IF i > Len(inst.frame.members) THEN acc
    ELSE LET member == inst.frame.members[i]
             si == getDOFMapping(inst.dofMappings, member.nodeStartId, 1)
             ei == getDOFMapping(inst.dofMappings, member.nodeEndId, 1)
         IN  IF (member.nodeStartId # node.id /\ member.nodeEndId # node.id)
                    \/ si = 0 \/ ei = 0
             THEN NodeMemberLoop(inst, displacements, node, i + 1, acc)
             ELSE With(multiplyMatrixVector(
                           transposeMatrix(buildTransformationMatrix(inst, member)),
                           MemberLocalForces(inst, member, displacements, si, ei,
                                             FemMapIndex(inst.memberFEMs, member.id, 1))),
                       LAMBDA fGlobal :
                         NodeMemberLoop(inst, displacements, node, i + 1,
                            IF member.nodeStartId = node.id
                            THEN [fx |-> Add(acc.fx, fGlobal[1]),
                                  fy |-> Add(acc.fy, fGlobal[2]),
                                  moment |-> IF node.support = "fixed"
                                             THEN Add(Nullish(acc.moment, Q(0)), fGlobal[3])
                                             ELSE acc.moment]
                            ELSE [fx |-> Add(acc.fx, fGlobal[4]),
                                  fy |-> Add(acc.fy, fGlobal[5]),
                                  moment |-> IF node.support = "fixed"
                                             THEN Add(Nullish(acc.moment, Q(0)), fGlobal[6])
                                             ELSE acc.moment]))

RECURSIVE NodeJointLoadLoop(_, _, _, _)
\* lines 662-670: the joint loads applied at the node are subtracted
NodeJointLoadLoop(loads, node, i, acc) ==
    IF i > Len(loads) THEN acc
    ELSE IF ~(isJointLoad(loads[i]) /\ loads[i].nodeId = node.id)
         THEN NodeJointLoadLoop(loads, node, i + 1, acc)
    ELSE NodeJointLoadLoop(loads, node, i + 1,
            [fx |-> IF loads[i].fx # Undef THEN Sub(acc.fx, loads[i].fx) ELSE acc.fx,
             fy |-> IF loads[i].fy # Undef THEN Sub(acc.fy, loads[i].fy) ELSE acc.fy,
             moment |-> IF loads[i].moment # Undef /\ acc.moment # Undef
                        THEN Sub(acc.moment, loads[i].moment) ELSE acc.moment])

RECURSIVE FrameReactionsLoop(_, _, _, _)
\* lines 591-678
FrameReactionsLoop(inst, displacements, i, reactions) ==
    IF i > Len(inst.frame.nodes) THEN reactions
    ELSE IF inst.frame.nodes[i].support = ""
         THEN FrameReactionsLoop(inst, displacements, i + 1, reactions)
    ELSE With(NodeJointLoadLoop(inst.frame.loads, inst.frame.nodes[i], 1,
                 NodeMemberLoop(inst, displacements, inst.frame.nodes[i], 1,
                                [fx |-> Q(0), fy |-> Q(0), moment |-> Undef])),
              LAMBDA r :
                FrameReactionsLoop(inst, displacements, i + 1,
                    Append(reactions, [nodeId |-> inst.frame.nodes[i].id,
                                       fx |-> r.fx, fy |-> r.fy, moment |-> r.moment])))

FrameCalculateReactions(inst, displacements) ==
    FrameReactionsLoop(inst, displacements, 1, <<>>)

RECURSIVE findMaxSway(_, _, _)
\* lines 882-890
findMaxSway(nodeDisplacements, i, maxSway) ==
    IF i > Len(nodeDisplacements) THEN maxSway
    ELSE findMaxSway(nodeDisplacements, i + 1,
            IF Gt(Abs(nodeDisplacements[i].dx), Abs(maxSway))
            THEN nodeDisplacements[i].dx ELSE maxSway)

\* Math.abs(v) > 0.001
AboveLogThreshold(v) == Gt(Abs(v), Frac(1, 1000))

\* lines 966-977: the members listed in section 2 of the calculation log, one
\* step for each entry of memberFEMs with a fixed-end moment above 0.001
FemLogSteps(memberFEMs) ==
    With(SelectSeq(memberFEMs, LAMBDA fem :
                AboveLogThreshold(fem.femStart) \/ AboveLogThreshold(fem.femEnd)),
         LAMBDA shown : Array([i \in 1..Len(shown) |-> shown[i].memberId]))

\* Math.abs(v) > 1e-8
AboveDisplacementThreshold(v) ==
    ~IsNaN(v) /\ ~AbsBelowInvSquare(v, 10000) /\ Abs(v) # <<1, 100000000>>

\* a member that the log neither calls horizontal nor vertical (lines 941-945):
\* its angle is more than 0.1 degree away from 0, 90 and -90 degrees, that
\* is, neither is its cosine positive with a sine within sin(0.1 degree) of
\* 0, nor is its cosine within sin(0.1 degree) of 0
isInclined(member, nodes) ==
    With(getMemberAngle(member, nodes), LAMBDA angle :
        /\ ~(Gt(angle.cos, Q(0)) /\ Le(Abs(angle.sin), Frac(1745, 1000000)))
        /\ ~Le(Abs(angle.cos), Frac(1745, 1000000)))

LogStep(stepNumber, description) ==
    [stepNumber |-> stepNumber, description |-> description]

\* steps pushed with stepNumber: stepNum++ (or idx + 1), one per subject
CountedSteps(prefix, subjects) ==
    Array([k \in 1..Len(subjects) |-> LogStep(k, prefix \o subjects[k])])

LogSection(title, steps) == [title |-> title, steps |-> steps]

\* lines 895-1065: the sections of the calculation log with their steps
FrameCalculationLog(inst, nodeDisplacements, memberForces, reactions) ==
    LET inclinedMembers ==
            SelectSeq(inst.frame.members, LAMBDA m : isInclined(m, inst.frame.nodes))
        femSteps == CountedSteps("Member ", FemLogSteps(inst.memberFEMs))
        dispSteps ==
            With(SelectSeq(nodeDisplacements, LAMBDA nd :
                        \/ AboveDisplacementThreshold(nd.dx)
                        \/ AboveDisplacementThreshold(nd.dy)
                        \/ AboveDisplacementThreshold(nd.rotation)),
                 LAMBDA moved :
                    CountedSteps("Node ", Array([k \in 1..Len(moved) |-> moved[k].nodeId])))
    IN  <<LogSection("1. Frame Configuration",
                     <<LogStep(1, "Frame type"), LogStep(2, "Geometry"),
                       LogStep(3, "Total DOFs"), LogStep(4, "Members")>>)>>
        \o (IF Len(inclinedMembers) > 0
            THEN <<LogSection("1a. Inclined Members",
                       CountedSteps("Member ",
                           Array([k \in 1..Len(inclinedMembers) |-> inclinedMembers[k].id])))>>
            ELSE <<>>)
        \o (IF Len(femSteps) > 0
            THEN <<LogSection("2. Fixed End Moments", femSteps)>> ELSE <<>>)
        \o <<LogSection("3. Stiffness Equations",
                        <<LogStep(1, "Global stiffness matrix assembled"),
                          LogStep(2, "System size")>>),
             LogSection("4. Joint Displacements",
                        IF Len(dispSteps) > 0 THEN dispSteps
                        ELSE <<LogStep(1, "All joints restrained")>>),
             LogSection("5. Member End Forces",
                        CountedSteps("Member ",
                            Array([k \in 1..Len(memberForces) |-> memberForces[k].memberId]))),
             LogSection("6. Support Reactions",
                        CountedSteps("Support ",
                            Array([k \in 1..Len(reactions) |-> reactions[k].nodeId])))>>

FrameThrow(msg, steps) ==
    [status |-> "threw", error |-> msg, steps |-> steps,
     nodeDisplacements |-> <<>>, swayDisplacement |-> Undef,
     memberForces |-> <<>>, reactions |-> <<>>,
     totalDOFs |-> NoDOF, swayDOFCount |-> 0, femLogSteps |-> <<>>,
     calculationLog |-> <<>>]

\* steps 6-12 of solve (lines 101-145) once the displacements are known, the
\* log of step 10 still to be written
FrameResults(inst, displacements) ==
    With(extractNodeDisplacements(inst, displacements), LAMBDA nodeDisplacements :
        [status |-> "returned", error |-> "",
         steps |-> <<"dofs", "fem", "stiffness", "loads", "solve", "results">>,
         nodeDisplacements |-> nodeDisplacements,
         swayDisplacement |-> IF inst.frame.isSway
                              THEN findMaxSway(nodeDisplacements, 1, Q(0)) ELSE Undef,
         memberForces |-> calculateMemberForces(inst, displacements),
         reactions |-> FrameCalculateReactions(inst, displacements),
         totalDOFs |-> inst.totalDOFs,
         swayDOFCount |-> Len(inst.swayDOFs),
         femLogSteps |-> FemLogSteps(inst.memberFEMs),
         calculationLog |-> <<>>])

\* step 10 of solve (lines 125-130): the log written from the results
FrameLogged(inst, outcome) ==
    IF outcome.status = "returned"
    THEN [outcome EXCEPT !.calculationLog =
              FrameCalculationLog(inst, outcome.nodeDisplacements,
                                  outcome.memberForces, outcome.reactions)]
    ELSE outcome

\* steps 3-12 on an instance whose DOFs and FEMs are set
FrameSolveSystem(inst) ==
    IF inst.totalDOFs > 0
    THEN With(solveLinearSystem(buildGlobalStiffnessMatrix(inst),
                                buildGlobalLoadVector(inst)), LAMBDA sol :
            IF sol.error # ""
            THEN FrameThrow(sol.error, <<"dofs", "fem", "stiffness", "loads", "solve">>)
            ELSE FrameResults(inst, sol.x))
    ELSE FrameResults(inst, <<>>)

\* steps 1-2 of solve (lines 81-85), then the rest
FrameSolveSteps(inst) ==
    With(FrameCalculateAllFEM(inst), LAMBDA fems :
        [inst |-> [inst EXCEPT !.memberFEMs = fems.memberFEMs],
         outcome |-> IF fems.error # "" THEN FrameThrow(fems.error, <<"dofs", "fem">>)
                     ELSE FrameSolveSystem([inst EXCEPT !.memberFEMs = fems.memberFEMs])])

\* FrameAnalysisSolver.solve(frame) on an instance: the instance and the
\* caller's document after the call, and what the call returned or threw.
\* The document is only read.  The log is kept with its sections and steps;
\* the member diagrams and the maxima are functions of the fields kept here.
FrameSolve(inst, frame) ==
    With(FrameSolveSteps(assignDOFs(FrameBegin(inst, frame))), LAMBDA r :
        [inst |-> r.inst, doc |-> frame, outcome |-> FrameLogged(r.inst, r.outcome)])

----------------------------------------------------------------------------
(* Beam documents a caller can pass: ContinuousBeamData of src/lib/types/beam.ts *)

SupportTypes == {"fixed", "pinned", "roller", "free"}

Node(id, position, supportType, settlement) ==
    [id |-> id, position |-> position, supportType |-> supportType,
     settlement |-> settlement]

\* a span in multiplier mode with no multiplier given
Span(id, nodeStartId, nodeEndId, length) ==
    [id |-> id, nodeStartId |-> nodeStartId, nodeEndId |-> nodeEndId, length |-> length,
     eiMode |-> "multiplier", ei |-> Undef, iMultiplier |-> Undef,
     E |-> Undef, EUnit |-> "", I |-> Undef, IUnit |-> ""]

PointLoad(id, spanId, magnitude, position) ==
    [id |-> id, type |-> "point", spanId |-> spanId, magnitude |-> magnitude,
     position |-> position, startPosition |-> Undef, endPosition |-> Undef,
     w1 |-> Undef, w2 |-> Undef]

UDL(id, spanId, magnitude, startPosition, endPosition) ==
    [id |-> id, type |-> "udl", spanId |-> spanId, magnitude |-> magnitude,
     position |-> Undef, startPosition |-> startPosition, endPosition |-> endPosition,
     w1 |-> Undef, w2 |-> Undef]

VDL(id, spanId, w1, w2, startPosition, endPosition) ==
    [id |-> id, type |-> "vdl", spanId |-> spanId, magnitude |-> Undef,
     position |-> Undef, startPosition |-> startPosition, endPosition |-> endPosition,
     w1 |-> w1, w2 |-> w2]

AppliedMoment(id, spanId, magnitude, position) ==
    [id |-> id, type |-> "moment", spanId |-> spanId, magnitude |-> magnitude,
     position |-> position, startPosition |-> Undef, endPosition |-> Undef,
     w1 |-> Undef, w2 |-> Undef]

\* a document with no default properties
BeamDoc(nodes, spans, loads) ==
    [nodes |-> nodes, spans |-> spans, loads |-> loads,
     defaultEI |-> Undef, defaultE |-> Undef, defaultEUnit |-> "",
     defaultI |-> Undef, defaultIUnit |-> ""]

\* load arrangements on a span of length 4, inside and outside the span
LoadChoices(spanId) ==
    { <<>>,
      <<PointLoad("P1", spanId, Q(8), Q(2))>>,
      <<PointLoad("P1", spanId, Q(8), Q(4))>>,
      <<PointLoad("P1", spanId, Q(8), Q(6))>>,
      <<PointLoad("P1", spanId, Q(8), Q(-1))>>,
      <<UDL("U1", spanId, Q(3), Q(0), Q(4))>>,
      <<UDL("U1", spanId, Q(3), Q(1), Q(3))>>,
      <<PointLoad("P1", spanId, Q(8), Q(2)), AppliedMoment("M1", spanId, Q(6), Q(8))>>,
      <<VDL("V1", spanId, Q(0), Q(6), Q(0), Q(4))>>,
      <<VDL("V1", spanId, Q(3), Q(6), Q(1), Q(3))>>,
      <<VDL("V1", spanId, Q(-3), Q(3), Q(0), Q(4))>>,
      <<VDL("V1", spanId, Q(3), Q(6), Q(-2), Q(2))>>,
      <<AppliedMoment("M1", spanId, Q(6), Q(2))>>,
      <<AppliedMoment("M1", spanId, Q(6), Q(5))>>,
      <<PointLoad("P1", spanId, Q(8), Q(1)), UDL("U1", spanId, Q(3), Q(0), Q(4))>> }

\* ways of giving a span its length and rigidity, valid and not
SpanChoices(id, nodeStartId, nodeEndId) ==
    LET base == Span(id, nodeStartId, nodeEndId, Q(4))
    IN  { [base EXCEPT !.length = Q(0)],
          [base EXCEPT !.length = Q(-4)],
          [base EXCEPT !.iMultiplier = Q(2)],
          [base EXCEPT !.iMultiplier = Q(0)],
          [base EXCEPT !.iMultiplier = Q(-1)],
          [base EXCEPT !.eiMode = "direct", !.ei = Q(12)],
          [base EXCEPT !.eiMode = "direct", !.ei = Q(0)],
          [base EXCEPT !.eiMode = "direct", !.ei = Q(-12)],
          [base EXCEPT !.eiMode = "direct"],
          [base EXCEPT !.eiMode = "separate"],
          [base EXCEPT !.eiMode = "separate", !.E = Q(0)],
          [base EXCEPT !.eiMode = "separate", !.E = Q(210), !.I = Q(-2000000),
                       !.IUnit = "mm4"],
          [base EXCEPT !.eiMode = "separate", !.E = Q(30000), !.EUnit = "MPa",
                       !.I = Q(4000), !.IUnit = "cm4"] }

OneSpanNodes(supA, supB, settleB) ==
    <<Node("A", Q(0), supA, Undef), Node("B", Q(4), supB, settleB)>>

TwoSpanNodes(supA, supB, supC, settleB) ==
    <<Node("A", Q(0), supA, Undef), Node("B", Q(4), supB, settleB),
      Node("C", Q(8), supC, Undef)>>

TwoSpans == <<Span("S1", "A", "B", Q(4)), Span("S2", "B", "C", Q(4))>>

OneSpanLoaded ==
    { BeamDoc(OneSpanNodes(supA, supB, Undef), <<Span("S1", "A", "B", Q(4))>>, loads) :
        supA \in SupportTypes, supB \in SupportTypes, loads \in LoadChoices("S1") }

OneSpanVaried ==
    { BeamDoc(OneSpanNodes(supA, supB, Undef), <<span>>, loads) :
        supA \in SupportTypes, supB \in SupportTypes,
        span \in SpanChoices("S1", "A", "B"),
        loads \in {<<>>, <<PointLoad("P1", "S1", Q(8), Q(2))>>} }

OneSpanSettled ==
    { BeamDoc(OneSpanNodes(supA, supB, Frac(1, 100)), <<Span("S1", "A", "B", Q(4))>>, <<>>) :
        supA \in SupportTypes, supB \in SupportTypes }

TwoSpanDocs ==
    { BeamDoc(TwoSpanNodes(supA, supB, supC, settleB), TwoSpans, loads) :
        supA \in SupportTypes, supB \in SupportTypes, supC \in SupportTypes,
        settleB \in {Undef, Frac(1, 100)},
        loads \in { <<>>, <<PointLoad("P1", "S1", Q(8), Q(2))>>,
                    <<UDL("U1", "S2", Q(3), Q(0), Q(4)),
                      AppliedMoment("M1", "S1", Q(6), Q(1))>> } }

\* documents whose nodes array is not in position order
UnorderedDocs ==
    { BeamDoc(<<Node("B", Q(4), supB, Undef), Node("A", Q(0), supA, Undef)>>,
              <<Span("S1", "A", "B", Q(4))>>, <<PointLoad("P1", "S1", Q(8), Q(2))>>) :
        supA \in SupportTypes, supB \in SupportTypes }
    \cup
    { BeamDoc(<<Node("C", Q(8), supC, Undef), Node("A", Q(0), "pinned", Undef),
                Node("B", Q(4), supB, Undef)>>,
              TwoSpans, <<UDL("U1", "S2", Q(3), Q(0), Q(4))>>) :
        supB \in SupportTypes, supC \in SupportTypes }

\* documents with default properties of their own
DefaultedDocs ==
    { [BeamDoc(OneSpanNodes("fixed", supB, Undef), <<span>>,
               <<PointLoad("P1", "S1", Q(8), Q(2))>>)
         EXCEPT !.defaultEI = Q(6), !.defaultE = Q(100), !.defaultEUnit = "kPa",
                !.defaultI = Q(3), !.defaultIUnit = "cm4"] :
        supB \in SupportTypes, span \in SpanChoices("S1", "A", "B") }

\* too few nodes, no span, a span between nodes the document does not have
MalformedDocs ==
    { BeamDoc(<<>>, <<>>, <<>>),
      BeamDoc(<<Node("A", Q(0), "fixed", Undef)>>, <<>>, <<>>),
      BeamDoc(<<Node("A", Q(0), "fixed", Undef)>>, <<Span("S1", "A", "B", Q(0))>>,
              <<PointLoad("P1", "S1", Q(8), Q(2))>>),
      BeamDoc(OneSpanNodes("fixed", "fixed", Undef), <<>>, <<>>),
      BeamDoc(OneSpanNodes("pinned", "roller", Undef), <<>>,
              <<PointLoad("P1", "S1", Q(8), Q(2))>>),
      BeamDoc(OneSpanNodes("free", "free", Undef), <<Span("S1", "A", "B", Q(0))>>,
              <<PointLoad("P1", "S1", Q(8), Q(2))>>),
      BeamDoc(OneSpanNodes("pinned", "roller", Undef), <<Span("S1", "A", "C", Q(4))>>,
              <<PointLoad("P1", "S1", Q(8), Q(2))>>),
      BeamDoc(OneSpanNodes("fixed", "fixed", Undef), <<Span("S1", "A", "C", Q(4))>>, <<>>),
      BeamDoc(<<Node("A", Q(0), "pinned", Undef), Node("C", Q(4), "roller", Undef)>>,
              <<Span("S1", "A", "C", Q(4))>>, <<PointLoad("P1", "S1", Q(8), Q(2))>>) }

\* simply supported spans of several lengths under one point load at midspan
MidspanDocs ==
    { BeamDoc(<<Node("A", Q(0), supA, Undef), Node("B", Q(L), supB, Undef)>>,
              <<Span("S1", "A", "B", Q(L))>>,
              <<PointLoad("P1", "S1", Q(P), Frac(L, 2))>>) :
        supA \in {"pinned", "roller"}, supB \in {"pinned", "roller"},
        L \in {3, 6}, P \in {5, -6} }

\* unloaded two-span beams whose supports settle: the first one alone, all
\* three by the same amount, or in proportion to their position
SettledTwoSpanDocs ==
    { BeamDoc(<<Node("A", Q(0), supA, settle[1]), Node("B", Q(4), supB, settle[2]),
                Node("C", Q(8), supC, settle[3])>>, TwoSpans, <<>>) :
        supA \in {"fixed", "pinned"}, supB \in {"fixed", "pinned", "roller"},
        supC \in {"fixed", "roller"},
        settle \in { <<Frac(1, 100), Undef, Undef>>,
                     <<Frac(1, 100), Frac(1, 100), Frac(1, 100)>>,
                     <<Q(0), Frac(1, 100), Frac(1, 50)>> } }

BeamDocs ==
    OneSpanLoaded \cup OneSpanVaried \cup OneSpanSettled \cup TwoSpanDocs
        \cup SettledTwoSpanDocs \cup UnorderedDocs \cup DefaultedDocs
        \cup MidspanDocs \cup MalformedDocs

\* documents passed to an instance that has already been used
FollowUpDocs ==
    { BeamDoc(OneSpanNodes("pinned", "roller", Undef), <<Span("S1", "A", "B", Q(4))>>,
              <<PointLoad("P1", "S1", Q(8), Q(2))>>),
      BeamDoc(OneSpanNodes("pinned", "roller", Undef), <<Span("S1", "A", "C", Q(4))>>,
              <<PointLoad("P1", "S1", Q(8), Q(2))>>),
      BeamDoc(OneSpanNodes("fixed", "pinned", Undef),
              <<[Span("S1", "A", "B", Q(4)) EXCEPT !.eiMode = "separate"]>>,
              <<UDL("U1", "S1", Q(3), Q(0), Q(4))>>),
      BeamDoc(<<Node("A", Q(0), "free", Undef)>>, <<>>, <<>>),
      BeamDoc(TwoSpanNodes("pinned", "roller", "roller", Undef), TwoSpans,
              <<PointLoad("P1", "S1", Q(8), Q(2))>>) }

----------------------------------------------------------------------------
(* Frame documents a caller can pass: FrameData *)

FrameSupports == {"fixed", "pinned", "roller", ""}

FrameNode(id, xx, y, support, storyIndex) ==
    [id |-> id, x |-> xx, y |-> y, support |-> support, storyIndex |-> storyIndex]

\* a member in multiplier mode with no multiplier and no release
FrameMember(id, nodeStartId, nodeEndId, memberType) ==
    [id |-> id, nodeStartId |-> nodeStartId, nodeEndId |-> nodeEndId,
     memberType |-> memberType, eiMode |-> "multiplier", ei |-> Undef,
     iMultiplier |-> Undef, E |-> Undef, I |-> Undef, A |-> Undef,
     EUnit |-> "", IUnit |-> "", AUnit |-> "",
     releaseStart |-> FALSE, releaseEnd |-> FALSE]

FrameLoadBase(id, type) ==
    [id |-> id, type |-> type, nodeId |-> "", memberId |-> "",
     fx |-> Undef, fy |-> Undef, moment |-> Undef, magnitude |-> Undef,
     position |-> Undef, startPosition |-> Undef, endPosition |-> Undef,
     w1 |-> Undef, w2 |-> Undef]

JointLoad(id, nodeId, fx, fy, moment) ==
    [FrameLoadBase(id, "joint") EXCEPT !.nodeId = nodeId, !.fx = fx, !.fy = fy,
                                       !.moment = moment]

MemberPointLoad(id, memberId, magnitude, position) ==
    [FrameLoadBase(id, "member-point") EXCEPT !.memberId = memberId,
        !.magnitude = magnitude, !.position = position]

MemberUDL(id, memberId, magnitude, startPosition, endPosition) ==
    [FrameLoadBase(id, "member-udl") EXCEPT !.memberId = memberId,
        !.magnitude = magnitude, !.startPosition = startPosition,
        !.endPosition = endPosition]

MemberVDL(id, memberId, w1, w2, startPosition, endPosition) ==
    [FrameLoadBase(id, "member-vdl") EXCEPT !.memberId = memberId, !.w1 = w1, !.w2 = w2,
        !.startPosition = startPosition, !.endPosition = endPosition]

MemberMoment(id, memberId, magnitude, position) ==
    [FrameLoadBase(id, "member-moment") EXCEPT !.memberId = memberId,
        !.magnitude = magnitude, !.position = position]

\* a document with no default properties but defaultEI
FrameDoc(nodes, members, loads, isSway, defaultEI) ==
    [nodes |-> nodes, members |-> members, loads |-> loads, isSway |-> isSway,
     defaultE |-> Undef, defaultEUnit |-> "", defaultI |-> Undef, defaultIUnit |-> "",
     defaultA |-> Undef, defaultAUnit |-> "", defaultEI |-> defaultEI]

\* load arrangements on member M1 and its end nodes A and B
FrameLoadChoices ==
    { <<>>,
      <<MemberPointLoad("P1", "M1", Q(8), Frac(1, 2))>>,
      <<MemberUDL("U1", "M1", Q(3), Q(0), Q(1))>>,
      <<MemberUDL("U1", "M1", Q(3), Frac(1, 4), Frac(3, 4))>>,
      <<MemberVDL("V1", "M1", Q(0), Q(6), Q(0), Q(1))>>,
      <<MemberVDL("V1", "M1", Q(-3), Q(3), Q(0), Q(1))>>,
      <<MemberMoment("M1", "M1", Q(6), Frac(1, 2))>>,
      <<JointLoad("J1", "B", Q(5), Undef, Undef)>>,
      <<JointLoad("J1", "B", Undef, Q(-5), Q(2))>>,
      <<JointLoad("J1", "A", Q(1), Q(1), Q(1)),
        MemberPointLoad("P1", "M1", Q(8), Frac(1, 4))>> }

\* one member between A and B, horizontal or vertical
OneMemberFrames ==
    { FrameDoc(<<FrameNode("A", Q(0), Q(0), supA, 0), FrameNode("B", end[1], end[2], supB, 1)>>,
               <<FrameMember("M1", "A", "B", "beam")>>, loads, FALSE, Q(12)) :
        supA \in FrameSupports, supB \in FrameSupports,
        end \in {<<Q(4), Q(0)>>, <<Q(0), Q(4)>>},
        loads \in FrameLoadChoices }

\* one horizontal member with a moment release at one end or at both
ReleasedFrames ==
    { FrameDoc(<<FrameNode("A", Q(0), Q(0), supA, 0), FrameNode("B", Q(4), Q(0), supB, 0)>>,
               <<[FrameMember("M1", "A", "B", "beam")
                    EXCEPT !.releaseStart = rel[1], !.releaseEnd = rel[2]]>>,
               loads, FALSE, Q(12)) :
        supA \in FrameSupports, supB \in FrameSupports,
        rel \in {<<TRUE, FALSE>>, <<FALSE, TRUE>>, <<TRUE, TRUE>>},
        loads \in { <<>>, <<MemberPointLoad("P1", "M1", Q(8), Frac(1, 2))>>,
                    <<MemberUDL("U1", "M1", Q(3), Q(0), Q(1))>>,
                    <<JointLoad("J1", "B", Undef, Q(-5), Q(2))>> } }

\* a member with E, I and A of its own: EI = ei and EA = ea
SeparateMember(id, nodeStartId, nodeEndId, memberType, ei, ea) ==
    [FrameMember(id, nodeStartId, nodeEndId, memberType)
        EXCEPT !.eiMode = "separate", !.E = Q(1), !.EUnit = "kPa", !.I = ei, !.A = ea]

\* one inclined member of length 5 (3-4-5)
InclinedFrames ==
    { FrameDoc(<<FrameNode("A", Q(0), Q(0), supA, 0), FrameNode("B", Q(3), Q(4), supB, 1)>>,
               <<SeparateMember("M1", "A", "B", "beam", Q(125), Q(125))>>,
               loads, FALSE, Undef) :
        supA \in {"fixed", "pinned"}, supB \in FrameSupports,
        loads \in FrameLoadChoices }

PortalNodes(supA, supD) ==
    <<FrameNode("A", Q(0), Q(0), supA, 0), FrameNode("B", Q(0), Q(1), "", 1),
      FrameNode("C", Q(1), Q(1), "", 1), FrameNode("D", Q(1), Q(0), supD, 0)>>

PortalMembers ==
    <<SeparateMember("M1", "A", "B", "column", Q(1), Q(1)),
      SeparateMember("M2", "B", "C", "beam", Q(1), Q(1)),
      SeparateMember("M3", "D", "C", "column", Q(1), Q(1))>>

\* single-bay, single-story frames, sway and braced
PortalFrames ==
    { FrameDoc(PortalNodes(supA, supD), PortalMembers, loads, isSway, Undef) :
        supA \in {"fixed", "pinned"}, supD \in {"fixed", "pinned"},
        isSway \in BOOLEAN,
        loads \in { <<>>, <<JointLoad("J1", "B", Q(6), Undef, Undef)>>,
                    <<MemberUDL("U1", "M2", Q(3), Q(0), Q(1))>> } }

\* the same frame under one horizontal joint load at a top node, with the
\* story of every node given (base 0, top 1) or, as the tests write it, absent
LateralPortalFrames ==
    { FrameDoc(<<FrameNode("A", Q(0), Q(0), sup, IF storied THEN 0 ELSE NoStory),
                 FrameNode("B", Q(0), Q(1), "", IF storied THEN 1 ELSE NoStory),
                 FrameNode("C", Q(1), Q(1), "", IF storied THEN 1 ELSE NoStory),
                 FrameNode("D", Q(1), Q(0), sup, IF storied THEN 0 ELSE NoStory)>>,
               PortalMembers, <<JointLoad("H1", at, fx, Undef, Undef)>>, isSway, Undef) :
        sup \in {"fixed", "pinned"}, storied \in BOOLEAN, at \in {"B", "C"},
        fx \in {Q(6), Q(-6)}, isSway \in BOOLEAN }

\* members whose rigidity is given in other ways
FrameMemberChoices ==
    LET base == FrameMember("M1", "A", "B", "beam")
    IN  { [base EXCEPT !.iMultiplier = Q(2)],
          [base EXCEPT !.eiMode = "direct", !.ei = Q(6)],
          [base EXCEPT !.eiMode = "direct", !.ei = Q(0)],
          [base EXCEPT !.eiMode = "separate"],
          [base EXCEPT !.eiMode = "separate", !.E = Q(2), !.EUnit = "kPa", !.I = Q(3)],
          [base EXCEPT !.eiMode = "separate", !.E = Q(2), !.EUnit = "kPa", !.I = Q(3),
                       !.A = Q(5)],
          [base EXCEPT !.eiMode = "separate", !.E = Q(2), !.EUnit = "MPa",
                       !.I = Q(30000), !.IUnit = "cm4", !.A = Q(500), !.AUnit = "cm2"] }

VariedFrames ==
    { [FrameDoc(<<FrameNode("A", Q(0), Q(0), "fixed", 0),
                  FrameNode("B", Q(4), Q(0), supB, 0)>>,
                <<member>>, <<MemberPointLoad("P1", "M1", Q(8), Frac(1, 2))>>, FALSE, dflt)
         EXCEPT !.defaultE = dE, !.defaultEUnit = IF dE = Undef THEN "" ELSE "kPa"] :
        supB \in FrameSupports, member \in FrameMemberChoices,
        dflt \in {Undef, Q(6)}, dE \in {Undef, Q(4)} }

\* no support at all, a member to a node the document does not have, two
\* nodes at one place, no member, a load on a node or member the document
\* does not have
MalformedFrames ==
    { FrameDoc(<<>>, <<>>, <<>>, FALSE, Undef),
      FrameDoc(<<FrameNode("A", Q(0), Q(0), "fixed", 0), FrameNode("B", Q(4), Q(0), "pinned", 0)>>,
               <<FrameMember("M1", "A", "B", "beam")>>,
               <<JointLoad("J1", "Z", Q(5), Q(-5), Undef)>>, FALSE, Q(12)),
      FrameDoc(<<FrameNode("A", Q(0), Q(0), "fixed", 0), FrameNode("B", Q(4), Q(0), "pinned", 0)>>,
               <<FrameMember("M1", "A", "B", "beam")>>,
               <<MemberPointLoad("P1", "M9", Q(8), Frac(1, 2))>>, FALSE, Q(12)),
      FrameDoc(<<FrameNode("A", Q(0), Q(0), "fixed", 0)>>, <<>>, <<>>, FALSE, Undef),
      FrameDoc(<<FrameNode("A", Q(0), Q(0), "fixed", 0), FrameNode("B", Q(4), Q(0), "", 0)>>,
               <<>>, <<JointLoad("J1", "B", Q(5), Undef, Undef)>>, FALSE, Undef),
      FrameDoc(<<FrameNode("A", Q(0), Q(0), "fixed", 0), FrameNode("B", Q(4), Q(0), "pinned", 0)>>,
               <<FrameMember("M1", "A", "C", "beam")>>, <<>>, FALSE, Undef),
      FrameDoc(<<FrameNode("A", Q(0), Q(0), "fixed", 0), FrameNode("B", Q(4), Q(0), "pinned", 0)>>,
               <<FrameMember("M1", "A", "C", "beam")>>,
               <<MemberPointLoad("P1", "M1", Q(8), Frac(1, 2))>>, FALSE, Undef),
      FrameDoc(<<FrameNode("A", Q(0), Q(0), "fixed", 0), FrameNode("B", Q(0), Q(0), "pinned", 0)>>,
               <<FrameMember("M1", "A", "B", "beam")>>,
               <<MemberUDL("U1", "M1", Q(3), Q(0), Q(1))>>, FALSE, Undef),
      FrameDoc(<<FrameNode("A", Q(0), Q(0), "fixed", 0), FrameNode("C", Q(4), Q(0), "pinned", 0)>>,
               <<FrameMember("M1", "A", "C", "beam")>>,
               <<MemberPointLoad("P1", "M1", Q(8), Frac(1, 2))>>, FALSE, Undef) }

\* a single-story bay with a second-story column on one side; the nodes are
\* listed so that the two stories interleave in scan order
TwoStoryFrames ==
    { FrameDoc(<<FrameNode("A", Q(0), Q(0), "fixed", 0),
                 FrameNode("B", Q(0), Q(1), "", 1),
                 FrameNode("E", Q(0), Q(2), "", 2),
                 FrameNode("C", Q(1), Q(1), "", 1),
                 FrameNode("D", Q(1), Q(0), "fixed", 0)>>,
               <<SeparateMember("M1", "A", "B", "column", Q(1), Q(1)),
                 SeparateMember("M2", "B", "E", "column", Q(1), Q(1)),
                 SeparateMember("M3", "D", "C", "column", Q(1), Q(1)),
                 SeparateMember("M4", "B", "C", "beam", Q(1), Q(1))>>,
               loads, isSway, Undef) :
        isSway \in BOOLEAN,
        loads \in { <<>>, <<JointLoad("H2", "E", Q(6), Undef, Undef)>> } }

\* the portal hung from its supports: the supported nodes on story 1, the
\* two unsupported nodes below them on story 0
HangingPortalFrames ==
    { FrameDoc(<<FrameNode("A", Q(0), Q(1), "fixed", 1),
                 FrameNode("B", Q(0), Q(0), "", 0),
                 FrameNode("C", Q(1), Q(0), "", 0),
                 FrameNode("D", Q(1), Q(1), "fixed", 1)>>,
               PortalMembers, loads, isSway, Undef) :
        isSway \in BOOLEAN,
        loads \in { <<>>, <<JointLoad("H1", "B", Q(6), Undef, Undef)>> } }

FrameDocs ==
    OneMemberFrames \cup ReleasedFrames \cup InclinedFrames \cup PortalFrames
        \cup LateralPortalFrames \cup TwoStoryFrames \cup HangingPortalFrames
        \cup VariedFrames \cup MalformedFrames

\* documents passed to an instance that has already been used
FollowUpFrames ==
    { FrameDoc(<<FrameNode("A", Q(0), Q(0), "fixed", 0), FrameNode("B", Q(4), Q(0), "pinned", 0)>>,
               <<FrameMember("M1", "A", "B", "beam")>>,
               <<MemberPointLoad("P1", "M1", Q(8), Frac(1, 2))>>, FALSE, Undef),
      FrameDoc(<<FrameNode("B", Q(0), Q(0), "pinned", 0), FrameNode("A", Q(4), Q(0), "roller", 0)>>,
               <<FrameMember("M2", "B", "A", "beam")>>,
               <<JointLoad("J1", "A", Q(5), Undef, Q(2))>>, FALSE, Q(12)),
      FrameDoc(<<FrameNode("A", Q(0), Q(0), "", 0), FrameNode("B", Q(4), Q(0), "", 0)>>,
               <<FrameMember("M1", "A", "B", "beam")>>, <<>>, FALSE, Q(12)),
      FrameDoc(<<FrameNode("A", Q(0), Q(0), "fixed", 0), FrameNode("B", Q(4), Q(0), "pinned", 0)>>,
               <<FrameMember("M1", "A", "C", "beam")>>,
               <<MemberPointLoad("P1", "M1", Q(8), Frac(1, 2))>>, FALSE, Undef),
      FrameDoc(<<FrameNode("A", Q(0), Q(0), "fixed", 0), FrameNode("B", Q(0), Q(4), "", 1)>>,
               <<FrameMember("M3", "A", "B", "column")>>,
               <<JointLoad("J1", "B", Q(6), Undef, Undef)>>, TRUE, Q(12)) }

----------------------------------------------------------------------------
(* Legacy conversion: convertLegacyBeamData (src/lib/types/beam.ts) *)

\* a number inside a template literal; integers and halves, not negative
FormatNumber(p) ==
    CASE p[2] = 1 /\ p[1] >= 0 -> ToString(p[1])
      [] p[2] = 2 /\ p[1] >= 0 -> ToString(p[1] \div 2) \o ".5"

RECURSIVE findSpanForPosition(_, _, _)
\* the 0-based index of the first span holding the position, -1 if none
findSpanForPosition(position, nodes, i) ==
    IF i >= Len(nodes) - 1 THEN -1
    ELSE IF Ge(position, nodes[i + 1].position) /\ Le(position, nodes[i + 2].position)
         THEN i
         ELSE findSpanForPosition(position, nodes, i + 1)

\* a span with its stiffness given directly
LegacySpan(id, nodeStartId, nodeEndId, length, ei) ==
    [Span(id, nodeStartId, nodeEndId, length) EXCEPT !.eiMode = "direct", !.ei = ei]

LegacySpans(nodes, ei) ==
    Array([i \in 1..(Len(nodes) - 1) |->
              LegacySpan("span-" \o ToString(i), nodes[i].id, nodes[i + 1].id,
                         Sub(nodes[i + 1].position, nodes[i].position), ei)])

\* one pass of the load loop: the loads pushed for one legacy load
LegacyLoad(load, nodes, spans) ==
    With(findSpanForPosition(IF load.type = "udl" THEN Nullish(load.start, Q(0))
                             ELSE Nullish(load.position, Q(0)), nodes, 0),
         LAMBDA spanIndex :
            IF spanIndex = -1 THEN <<>>
            ELSE With([span |-> spans[spanIndex + 1],
                       spanStart |-> nodes[spanIndex + 1].position,
                       sign |-> IF load.direction = "up" THEN Q(-1) ELSE Q(1)],
                      LAMBDA at :
                        IF load.type = "point" /\ load.position # Undef
                        THEN <<PointLoad(load.id, at.span.id, Mul(load.magnitude, at.sign),
                                         Sub(load.position, at.spanStart))>>
                        ELSE IF load.type = "udl" /\ load.start # Undef /\ load.end # Undef
                        THEN <<UDL(load.id, at.span.id, Mul(load.magnitude, at.sign),
                                   Sub(load.start, at.spanStart),
                                   Sub(load.end, at.spanStart))>>
                        ELSE IF load.type = "moment" /\ load.position # Undef
                        THEN <<AppliedMoment(load.id, at.span.id, load.magnitude,
                                             Sub(load.position, at.spanStart))>>
                        ELSE <<>>))

RECURSIVE LegacyLoadLoop(_, _, _, _, _)
LegacyLoadLoop(loads, nodes, spans, i, beamLoads) ==
    IF i > Len(loads) THEN beamLoads
    ELSE LegacyLoadLoop(loads, nodes, spans, i + 1,
                        beamLoads \o LegacyLoad(loads[i], nodes, spans))

LegacyNodes(sortedSupports) ==
    Array([i \in 1..Len(sortedSupports) |->
              Node(sortedSupports[i].id, sortedSupports[i].position,
                   sortedSupports[i].type, Undef)])

convertLegacyBeamData(legacy) ==
    With(LegacyNodes(SortByPosition(legacy.supports, 1, <<>>)), LAMBDA nodes :
        With(LegacySpans(nodes, legacy.ei), LAMBDA spans :
            [BeamDoc(nodes, spans, LegacyLoadLoop(legacy.loads, nodes, spans, 1, <<>>))
                EXCEPT !.defaultEI = legacy.ei]))

----------------------------------------------------------------------------
(* BeamSolver, the legacy wrapper (src/unnamed/part_009) *)

\* the constructor (lines 19-21): the wrapped ContinuousBeamSolver
NewWrapper == NewBeamSolver

\* supports missing or empty, or strings
isLegacyStringSupports(input) ==
    IF Len(input.supports) = 0 THEN TRUE
    ELSE input.supports[1].kind = "string"

\* what Math.random() can contribute to a load id
RandomIds == {"l-0.25", "l-0.75"}

LegacySupportOf(s) ==
    [id |-> IF s.id # "" THEN s.id ELSE "s-" \o FormatNumber(s.position),
     type |-> s.type, position |-> s.position]

LegacyLoadOf(l, random) ==
    [id |-> IF l.id # "" THEN l.id ELSE random,
     type |-> l.type, magnitude |-> l.magnitude, position |-> l.position,
     start |-> l.start, end |-> l.end,
     direction |-> IF l.direction # "" THEN l.direction ELSE "down"]

\* the converted document, or the error thrown; randoms[i] is the id drawn
\* for load i when it has none
convertToBeamData(input, randoms) ==
    IF Len(input.supports) < 2
    THEN [error |-> "Need at least 2 supports", data |-> BeamDoc(<<>>, <<>>, <<>>)]
    ELSE IF input.supports[1].kind = "object" /\ input.supports[1].position # Undef
    THEN [error |-> "",
          data |-> convertLegacyBeamData(
                      [length |-> input.length, ei |-> input.ei,
                       supports |-> Array([i \in 1..Len(input.supports) |->
                                              LegacySupportOf(input.supports[i])]),
                       loads |-> Array([i \in 1..Len(input.loads) |->
                                           LegacyLoadOf(input.loads[i], randoms[i])])])]
    ELSE [error |-> "Unsupported input format", data |-> BeamDoc(<<>>, <<>>, <<>>)]

\* BeamResults: which solver produced it, the error caught and logged on the
\* way ("" if none), and the reactions.  The diagrams and their maxima are
\* functions of the same result and are not kept.
WrapResults(producedBy, caught, reactions) ==
    [status |-> "returned", error |-> "", producedBy |-> producedBy,
     caught |-> caught, reactions |-> reactions]

convertToLegacyResults(result) ==
    Array([i \in 1..Len(result.reactions) |-> result.reactions[i].vertical])

RECURSIVE TotalLoad(_, _, _)
\* loads.reduce((sum, load) => sum + load.magnitude, 0)
TotalLoad(loads, i, sum) ==
    IF i > Len(loads) THEN sum
    ELSE TotalLoad(loads, i + 1, Add(sum, loads[i].magnitude))

\* calculateReactions of the wrapper (lines 168-171)
LegacyCalculateReactions(loads) ==
    <<Div(TotalLoad(loads, 1, Q(0)), Q(2)), Div(TotalLoad(loads, 1, Q(0)), Q(2))>>

\* the placeholder result (lines 122-166)
solveLegacy(input, caught) ==
    WrapResults("placeholder", caught, LegacyCalculateReactions(input.loads))

\* BeamSolver.solve(input) (lines 26-43): the wrapped instance after the
\* call and what the call returned
WrapSolve(solver, input, randoms) ==
    IF isLegacyStringSupports(input)
    THEN [solver |-> solver, outcome |-> solveLegacy(input, "")]
    ELSE With(convertToBeamData(input, randoms), LAMBDA conv :
            IF conv.error # ""
            THEN [solver |-> solver, outcome |-> solveLegacy(input, conv.error)]
            ELSE With(BeamSolve(solver, conv.data), LAMBDA r :
                    [solver |-> r.inst,
                     outcome |-> IF r.outcome.status = "threw"
                                 THEN solveLegacy(input, r.outcome.error)
                                 ELSE WrapResults("solver", "",
                                                  convertToLegacyResults(r.outcome))]))

----------------------------------------------------------------------------
(* Inputs a caller can pass to the wrapper: BeamInput of src/lib/solver/types.ts *)

\* an editor-style support; id "" and position Undef stand for absent keys
EditorSupport(id, type, position) ==
    [kind |-> "object", id |-> id, type |-> type, position |-> position]

\* a support given as a SupportCondition string
StringSupport(type) == [kind |-> "string", id |-> "", type |-> type, position |-> Undef]

InputLoad(id, type, magnitude, position, start, end, direction) ==
    [id |-> id, type |-> type, magnitude |-> magnitude, position |-> position,
     start |-> start, end |-> end, direction |-> direction]

BeamInput(length, ei, supports, loads) ==
    [length |-> length, ei |-> ei, spans |-> IF Len(supports) > 1 THEN Len(supports) - 1 ELSE 1,
     supports |-> supports, loads |-> loads]

InputLoadChoices ==
    { <<>>,
      <<InputLoad("P1", "point", Q(8), Q(2), Undef, Undef, "")>>,
      <<InputLoad("", "point", Q(8), Q(2), Undef, Undef, "up")>>,
      <<InputLoad("U1", "udl", Q(3), Undef, Q(0), Q(4), "down")>>,
      <<InputLoad("P1", "point", Q(8), Q(6), Undef, Undef, "")>>,
      <<InputLoad("", "moment", Q(6), Q(1), Undef, Undef, ""),
        InputLoad("", "point", Q(8), Q(2), Undef, Undef, "")>> }

InputSupportTypes == {"fixed", "pinned", "roller"}

\* two supports 4 apart, with a usable stiffness or none
TwoSupportInputs ==
    { BeamInput(Q(4), ei, <<EditorSupport(idA, supA, Q(0)), EditorSupport("", supB, Q(4))>>,
                loads) :
        ei \in {Q(12), Q(0)}, idA \in {"A", ""},
        supA \in InputSupportTypes, supB \in InputSupportTypes,
        loads \in InputLoadChoices }

OtherInputs ==
    { BeamInput(Q(8), Q(12), <<EditorSupport("C", "roller", Q(8)),
                               EditorSupport("A", "pinned", Q(0)),
                               EditorSupport("B", "roller", Q(4))>>, loads) :
        loads \in InputLoadChoices }
    \cup
    { BeamInput(Q(4), Q(12), supports,
                <<InputLoad("P1", "point", Q(8), Q(2), Undef, Undef, "")>>) :
        supports \in { <<>>, <<StringSupport("pinned"), StringSupport("roller")>>,
                       <<EditorSupport("A", "fixed", Q(0))>>,
                       <<EditorSupport("A", "pinned", Undef),
                         EditorSupport("B", "roller", Undef)>> } }

BeamInputs == TwoSupportInputs \cup OtherInputs

----------------------------------------------------------------------------
(* A caller using one ContinuousBeamSolver instance *)

MaxCalls == 2

NoOutcome ==
    [status |-> "none", error |-> "", steps |-> <<>>,
     rotations |-> EmptyMap, endMoments |-> <<>>, reactions |-> <<>>]

LinIdle ==
    /\ A = <<>> /\ b = <<>> /\ augmented = <<>> /\ col = 0 /\ laPc = "idle" /\ x = <<>>

BeamIdle ==
    /\ beamSolver = NewBeamSolver
    /\ beamData = BeamDoc(<<>>, <<>>, <<>>)
    /\ beamOutcome = NoOutcome
    /\ beamPc = "idle"
    /\ beamCalls = 0
    /\ beamEarlier = <<>>

NoFrameOutcome == [FrameThrow("", <<>>) EXCEPT !.status = "none"]

FrameIdle ==
    /\ frameSolver = NewFrameSolver
    /\ frameData = FrameDoc(<<>>, <<>>, <<>>, FALSE, Undef)
    /\ frameOutcome = NoFrameOutcome
    /\ framePc = "idle"
    /\ frameCalls = 0
    /\ frameEarlier = <<>>

NoWrapOutcome == [WrapResults("", "", <<>>) EXCEPT !.status = "none"]

WrapIdle ==
    /\ wrapSolver = NewWrapper
    /\ wrapInput = BeamInput(Q(0), Q(0), <<>>, <<>>)
    /\ wrapOutcome = NoWrapOutcome
    /\ wrapPc = "idle"

FemCall(fn, w1, w2, L, startPos, endPos) ==
    [fn |-> fn, w1 |-> w1, w2 |-> w2, L |-> L, startPos |-> startPos, endPos |-> endPos]

NoFem == [FemOk(Q(0), Q(0)) EXCEPT !.error = "none"]

FemIdle ==
    /\ femCall = FemCall("", Undef, Undef, Undef, Undef, Undef)
    /\ femResult = NoFem
    /\ femPc = "idle"

NoOp == [op |-> "", id |-> ""]

StoreIdle == projects = <<>> /\ storeOp = NoOp /\ clock = 0

\* useState's initial value when the hook gets no initial state (lines 15-20)
NewEditor == [length |-> Q(10), ei |-> Q(50000), supports |-> <<>>, loads |-> <<>>]

EditorIdle == editor = NewEditor /\ editorSeen = Q(10)

AppIdle == StoreIdle /\ EditorIdle /\ nanoIssued = 0 /\ beamDiagrams = NoDiagrams

\* new ContinuousBeamSolver(), and a document to solve
BeamInit ==
    /\ LinIdle
    /\ FrameIdle
    /\ WrapIdle
    /\ beamSolver = NewBeamSolver
    /\ beamData \in BeamDocs
    /\ beamOutcome = NoOutcome
    /\ beamPc = "ready"
    /\ beamCalls = 0
    /\ beamEarlier = <<>>
    /\ FemIdle
    /\ AppIdle

\* solver.solve(beam)
BeamSolveCall ==
    /\ beamPc = "ready"
    /\ \E r \in {BeamSolve(beamSolver, beamData)} :
          /\ beamSolver' = r.inst
          /\ beamData' = r.doc
          /\ beamOutcome' = r.outcome
    /\ beamPc' = "done"
    /\ beamCalls' = beamCalls + 1
    /\ UNCHANGED beamEarlier
    /\ UNCHANGED <<laVars, frameVars, wrapVars, femVars, appVars>>

\* the caller builds its next document for the same instance
BeamNewDocument ==
    /\ beamPc = "done"
    /\ beamCalls < MaxCalls
    /\ beamData' \in FollowUpDocs
    /\ beamEarlier' = Append(beamEarlier, beamOutcome.error)
    /\ beamOutcome' = NoOutcome
    /\ beamPc' = "ready"
    /\ UNCHANGED <<beamSolver, beamCalls>>
    /\ UNCHANGED <<laVars, frameVars, wrapVars, femVars, appVars>>

BeamNext == BeamSolveCall \/ BeamNewDocument

SpecBeam == BeamInit /\ [][BeamNext]_vars

\* A caller that reads the diagrams of what solve returns.  The other
\* specifications follow solve up to the reactions; this one follows it
\* through step 8 on documents with small numbers.
\* load arrangements on a span of length 10, among them a VDL whose end
\* intensities cancel and one whose end intensities are both zero
DiagramLoads(spanId) ==
    { <<>>,
      <<PointLoad("P1", spanId, Q(8), Q(5))>>,
      <<UDL("U1", spanId, Q(3), Q(0), Q(10))>>,
      <<PointLoad("P1", spanId, Q(8), Q(2)), AppliedMoment("M1", spanId, Q(6), Q(8))>>,
      <<VDL("V1", spanId, Q(0), Q(6), Q(0), Q(10))>>,
      <<VDL("V1", spanId, Q(-3), Q(3), Q(0), Q(10))>>,
      <<VDL("V1", spanId, Q(0), Q(0), Q(0), Q(10))>>,
      <<AppliedMoment("M1", spanId, Q(6), Q(5))>> }

DiagramSupports == {"fixed", "pinned", "roller"}

\* one span of length 10 whose left end is at the position given
OneSpanAt(left, supA, supB, loads) ==
    BeamDoc(<<Node("A", left, supA, Undef), Node("B", Add(left, Q(10)), supB, Undef)>>,
            <<Span("S1", "A", "B", Q(10))>>, loads)

\* two spans of length 5, the nodes and the spans in the order given
TwoSpanIn(nodeOrder, spanOrder, supB, loads) ==
    LET nodes == <<Node("A", Q(0), "pinned", Undef), Node("B", Q(5), supB, Undef),
                   Node("C", Q(10), "roller", Undef)>>
        spans == <<Span("S1", "A", "B", Q(5)), Span("S2", "B", "C", Q(5))>>
    IN  BeamDoc(Array([i \in 1..3 |-> nodes[nodeOrder[i]]]),
                Array([i \in 1..2 |-> spans[spanOrder[i]]]), loads)

DiagramDocs ==
    { OneSpanAt(Q(0), supA, supB, loads) :
        supA \in DiagramSupports, supB \in DiagramSupports, loads \in DiagramLoads("S1") }
    \cup
    { OneSpanAt(Q(10), "pinned", supB, loads) :
        supB \in DiagramSupports, loads \in {<<>>, <<UDL("U1", "S1", Q(3), Q(0), Q(10))>>} }
    \cup
    { TwoSpanIn(nodeOrder, spanOrder, supB, loads) :
        nodeOrder \in {<<1, 2, 3>>, <<3, 1, 2>>}, spanOrder \in {<<1, 2>>, <<2, 1>>},
        supB \in {"pinned", "fixed"},
        loads \in { <<PointLoad("P1", "S1", Q(8), Q(2))>>,
                    <<UDL("U1", "S2", Q(3), Q(0), Q(5))>> } }

DiagramInit ==
    /\ LinIdle
    /\ FrameIdle
    /\ WrapIdle
    /\ FemIdle
    /\ StoreIdle /\ EditorIdle /\ nanoIssued = 0
    /\ beamSolver = NewBeamSolver
    /\ beamData \in DiagramDocs
    /\ beamOutcome = NoOutcome
    /\ beamPc = "ready"
    /\ beamCalls = 0
    /\ beamEarlier = <<>>
    /\ beamDiagrams = NoDiagrams

DiagramFrame ==
    UNCHANGED <<laVars, frameVars, wrapVars, femVars, storeVars, editorVars, nanoIssued>>

\* solver.solve(beam), diagrams included
DiagramSolveCall ==
    /\ beamPc = "ready"
    /\ \E r \in {BeamSolve(beamSolver, beamData)} :
          /\ beamSolver' = r.inst
          /\ beamData' = r.doc
          /\ beamOutcome' = r.outcome
          /\ beamDiagrams' = SolveDiagrams(r)
    /\ beamPc' = "done"
    /\ beamCalls' = beamCalls + 1
    /\ UNCHANGED beamEarlier
    /\ DiagramFrame

DiagramNext == DiagramSolveCall

SpecDiagrams == DiagramInit /\ [][DiagramNext]_vars

----------------------------------------------------------------------------
(* A caller using one FrameAnalysisSolver instance *)

\* new FrameAnalysisSolver(), and a document to solve
FrameInit ==
    /\ LinIdle
    /\ BeamIdle
    /\ WrapIdle
    /\ frameSolver = NewFrameSolver
    /\ frameData \in FrameDocs
    /\ frameOutcome = NoFrameOutcome
    /\ framePc = "ready"
    /\ frameCalls = 0
    /\ frameEarlier = <<>>
    /\ FemIdle
    /\ AppIdle

\* solver.solve(frame)
FrameSolveCall ==
    /\ framePc = "ready"
    /\ \E r \in {FrameSolve(frameSolver, frameData)} :
          /\ frameSolver' = r.inst
          /\ frameData' = r.doc
          /\ frameOutcome' = r.outcome
    /\ framePc' = "done"
    /\ frameCalls' = frameCalls + 1
    /\ UNCHANGED frameEarlier
    /\ UNCHANGED <<laVars, beamVars, wrapVars, femVars, appVars>>

\* the caller builds its next document for the same instance
FrameNewDocument ==
    /\ framePc = "done"
    /\ frameCalls < MaxCalls
    /\ frameData' \in FollowUpFrames
    /\ frameEarlier' = Append(frameEarlier, frameOutcome.error)
    /\ frameOutcome' = NoFrameOutcome
    /\ framePc' = "ready"
    /\ UNCHANGED <<frameSolver, frameCalls>>
    /\ UNCHANGED <<laVars, beamVars, wrapVars, femVars, appVars>>

FrameNext == FrameSolveCall \/ FrameNewDocument

SpecFrame == FrameInit /\ [][FrameNext]_vars

----------------------------------------------------------------------------
(* A caller using one BeamSolver wrapper *)

\* new BeamSolver(), and an input to solve
WrapInit ==
    /\ LinIdle
    /\ BeamIdle
    /\ FrameIdle
    /\ wrapSolver = NewWrapper
    /\ wrapInput \in BeamInputs
    /\ wrapOutcome = NoWrapOutcome
    /\ wrapPc = "ready"
    /\ FemIdle
    /\ AppIdle

\* wrapper.solve(input)
WrapSolveCall ==
    /\ wrapPc = "ready"
    /\ \E randoms \in [1..Len(wrapInput.loads) -> RandomIds] :
          \E r \in {WrapSolve(wrapSolver, wrapInput, randoms)} :
              /\ wrapSolver' = r.solver
              /\ wrapOutcome' = r.outcome
    /\ wrapPc' = "done"
    /\ UNCHANGED wrapInput
    /\ UNCHANGED <<laVars, beamVars, frameVars, femVars, appVars>>

WrapNext == WrapSolveCall

\* a caller of any of the three solver classes
SolversInit == BeamInit \/ FrameInit \/ WrapInit
SolversNext == BeamNext \/ FrameNext \/ WrapNext
SpecSolvers == SolversInit /\ [][SolversNext]_vars

----------------------------------------------------------------------------
(* The kernel as a state machine: one solveLinearSystem call, column by column *)

MaxDim == 2
MaxEntry == 1

\* all matrices and right-hand sides over -MaxEntry..MaxEntry up to 2 x 2;
\* larger systems over {-1, 0, 1} with two right-hand sides
EntryVals(n) == IF n <= 2 THEN {Q(i) : i \in -MaxEntry..MaxEntry} ELSE {Q(-1), Q(0), Q(1)}
SquareMatrices(n) == [1..n -> [1..n -> EntryVals(n)]]
Vectors(n) ==
    IF n <= 2 THEN [1..n -> EntryVals(n)]
    ELSE {[i \in 1..n |-> Q(1)], [i \in 1..n |-> Q(i)]}

LinInit ==
    /\ \E n \in 1..MaxDim : A \in SquareMatrices(n) /\ b \in Vectors(n)
    /\ augmented = <<>>
    /\ col = 0
    /\ laPc = "call"
    /\ x = <<>>
    /\ BeamIdle
    /\ FrameIdle
    /\ WrapIdle
    /\ FemIdle
    /\ AppIdle

\* the caller's matrix if the rows of augmented were the rows of A themselves
CallerMatrix_SharedRows(AA, aug) ==
    Array([i \in 1..Len(AA) |-> SubSeq(aug[i], 1, Len(AA))])

\* line 131: A.map((row, i) => [...row, b[i]]) builds every row of augmented
\* anew, so a write to augmented reaches no row of the caller's matrix
CallerMatrix(AA, aug) == AA

\* lines 119-131: validation and the augmented copy
LinCall ==
    /\ laPc = "call"
    /\ augmented' = Augment(A, b)
    /\ col' = 0
    /\ laPc' = "eliminate"
    /\ UNCHANGED <<A, b, x>>
    /\ UNCHANGED <<beamVars, frameVars, wrapVars, femVars, appVars>>

\* lines 134-163: one iteration of the column loop
LinEliminateColumn ==
    /\ laPc = "eliminate"
    /\ col < Len(A)
    /\ LET r == EliminateColumn(augmented, col + 1)
       IN  /\ augmented' = r.aug
           /\ A' = CallerMatrix(A, r.aug)
           /\ IF r.threw
              THEN laPc' = "threw" /\ col' = col
              ELSE laPc' = "eliminate" /\ col' = col + 1
    /\ UNCHANGED <<b, x>>
    /\ UNCHANGED <<beamVars, frameVars, wrapVars, femVars, appVars>>

\* lines 165-175: back substitution and return
LinBackSubstitute ==
    /\ laPc = "eliminate"
    /\ col = Len(A)
    /\ x' = BackSubstitute(augmented, createZeroVector(Len(A)), Len(A))
    /\ laPc' = "done"
    /\ UNCHANGED <<A, b, augmented, col>>
    /\ UNCHANGED <<beamVars, frameVars, wrapVars, femVars, appVars>>

LinNext == LinCall \/ LinEliminateColumn \/ LinBackSubstitute

SpecLin == LinInit /\ [][LinNext]_vars

----------------------------------------------------------------------------
(* The fixed-end-moment functions, called on their own *)

SpanLengths == { Q(1), Q(3), Q(4), Frac(5, 2) }
Intensities == { Q(-4), Q(-1), Q(0), Q(2), Q(5) }

\* load regions [a, b] of a span of length L: on the quarter points, and
\* close to the whole span
QuarterRegions(L) ==
    { <<Mul(Frac(i, 4), L), Mul(Frac(j, 4), L)>> : i \in 0..4, j \in 0..4 }
NearFullRegions(L) ==
    { <<Q(0), Mul(Frac(24, 25), L)>>, <<Mul(Frac(1, 25), L), L>> }

PointCalls ==
    { FemCall("point", w, Undef, L, Mul(Frac(i, 4), L), Undef) :
        w \in Intensities, L \in SpanLengths \cup {Q(0)}, i \in -1..5 }
UDLCalls ==
    UNION { { FemCall("udl", w, Undef, L, region[1], region[2]) :
                region \in QuarterRegions(L) \cup NearFullRegions(L) } :
            w \in Intensities, L \in SpanLengths }
      \cup { FemCall("udl", Q(2), Undef, Q(0), Q(0), Q(0)) }
VDLCalls ==
    UNION { { FemCall("vdl", w1, w2, L, region[1], region[2]) :
                region \in { <<Q(0), L>>, <<Q(0), Undef>>, <<Q(0), Mul(Frac(1, 2), L)>>,
                             <<Mul(Frac(1, 4), L), L>> } } :
            w1 \in Intensities, w2 \in Intensities, L \in SpanLengths }
      \cup { FemCall("vdl", Q(2), Q(5), Q(-1), Q(0), Undef) }

FemInit ==
    /\ LinIdle
    /\ BeamIdle
    /\ FrameIdle
    /\ WrapIdle
    /\ AppIdle
    /\ femCall \in PointCalls \cup UDLCalls \cup VDLCalls
    /\ femResult = NoFem
    /\ femPc = "ready"

CallPointLoadFEM ==
    /\ femPc = "ready"
    /\ femCall.fn = "point"
    /\ femResult' = calculatePointLoadFEM(femCall.w1, femCall.L, femCall.startPos)
    /\ femPc' = "done"
    /\ UNCHANGED femCall
    /\ UNCHANGED <<laVars, beamVars, frameVars, wrapVars, appVars>>

CallUDLFEM ==
    /\ femPc = "ready"
    /\ femCall.fn = "udl"
    /\ femResult' = calculateUDLFEM(femCall.w1, femCall.L, femCall.startPos, femCall.endPos)
    /\ femPc' = "done"
    /\ UNCHANGED femCall
    /\ UNCHANGED <<laVars, beamVars, frameVars, wrapVars, appVars>>

CallVDLFEM ==
    /\ femPc = "ready"
    /\ femCall.fn = "vdl"
    /\ femResult' = calculateVDLFEM(femCall.w1, femCall.w2, femCall.L,
                                    femCall.startPos, femCall.endPos)
    /\ femPc' = "done"
    /\ UNCHANGED femCall
    /\ UNCHANGED <<laVars, beamVars, frameVars, wrapVars, appVars>>

FemNext == CallPointLoadFEM \/ CallUDLFEM \/ CallVDLFEM

SpecFem == FemInit /\ [][FemNext]_vars

----------------------------------------------------------------------------
(* The project store *)

MaxProjects == 2
MaxIds == 2
MaxClock == 1

\* nanoid(): a string it has not returned before
nanoid(issued) == "id-" \o ToString(issued + 1)

Project(id, name, type, data, createdAt, updatedAt) ==
    [id |-> id, name |-> name, type |-> type, data |-> data,
     createdAt |-> createdAt, updatedAt |-> updatedAt]

\* { ...p, ...updates }
Spread(p, updates) ==
    [f \in DOMAIN p |-> IF f \in DOMAIN updates THEN updates[f] ELSE p[f]]

createProject(list, project) == <<project>> \o list

updateProject(list, id, updates) ==
    [i \in 1..Len(list) |-> IF list[i].id = id THEN Spread(list[i], updates) ELSE list[i]]

\* the filter dropping the first project of that id only
deleteProject_FirstOnly(list, id) ==
    IF \E i \in 1..Len(list) : list[i].id = id
    THEN LET k == CHOOSE i \in 1..Len(list) :
                      list[i].id = id /\ \A j \in 1..(i - 1) : list[j].id # id
         IN  SubSeq(list, 1, k - 1) \o SubSeq(list, k + 1, Len(list))
    ELSE list

deleteProject(list, id) == SelectSeq(list, LAMBDA p : p.id # id)

renameProject(list, id, name, now) ==
    [i \in 1..Len(list) |->
        IF list[i].id = id THEN [list[i] EXCEPT !.name = name, !.updatedAt = now]
        ELSE list[i]]

\* state.projects.find((p) => p.id === id): the first match, <<>> if none
FindProject(list, id) ==
    IF \E i \in 1..Len(list) : list[i].id = id
    THEN <<list[CHOOSE i \in 1..Len(list) :
                    list[i].id = id /\ \A j \in 1..(i - 1) : list[j].id # id]>>
    ELSE <<>>

\* the copy keeps the id of the project it copies
duplicateProject_SameId(list, id, newId, createdAt, updatedAt) ==
    IF FindProject(list, id) = <<>> THEN list
    ELSE <<[FindProject(list, id)[1] EXCEPT
               !.name = @ \o " (Copy)",
               !.createdAt = createdAt, !.updatedAt = updatedAt]>> \o list

duplicateProject(list, id, newId, createdAt, updatedAt) ==
    IF FindProject(list, id) = <<>> THEN list
    ELSE <<[FindProject(list, id)[1] EXCEPT
               !.id = newId, !.name = @ \o " (Copy)",
               !.createdAt = createdAt, !.updatedAt = updatedAt]>> \o list

\* the ids the store's callers pass: ids nanoid gives, the id the tests
\* use, and one no project has
StoreIds == { nanoid(k) : k \in 0..(MaxIds - 1) } \cup {"test-1", "missing"}

\* the times two successive Date.now() calls can return from now on
Readings == { t \in (clock..MaxClock) \X (clock..MaxClock) : t[1] <= t[2] }

StoreInit ==
    /\ LinIdle /\ BeamIdle /\ FrameIdle /\ WrapIdle /\ FemIdle /\ EditorIdle
    /\ beamDiagrams = NoDiagrams
    /\ projects = <<>>
    /\ storeOp = NoOp
    /\ clock = 0
    /\ nanoIssued = 0

StoreFrame ==
    UNCHANGED <<laVars, beamVars, frameVars, wrapVars, femVars, editorVars, beamDiagrams>>

\* createProject with the id the tests write
StoreCreate ==
    /\ Len(projects) < MaxProjects
    /\ \E t \in Readings, shape \in { <<"A", "beam", "d1">>, <<"B", "frame", "d2">> } :
          /\ projects' = createProject(projects,
                              Project("test-1", shape[1], shape[2], shape[3], t[1], t[2]))
          /\ clock' = t[2]
    /\ storeOp' = [op |-> "create", id |-> "test-1"]
    /\ UNCHANGED nanoIssued
    /\ StoreFrame

\* createProject as the pages call it, with an id from nanoid()
StoreCreateNew ==
    /\ Len(projects) < MaxProjects
    /\ nanoIssued < MaxIds
    /\ \E t \in Readings, shape \in { <<"A", "beam", "d1">>, <<"B", "frame", "d2">> } :
          /\ projects' = createProject(projects,
                              Project(nanoid(nanoIssued), shape[1], shape[2], shape[3],
                                      t[1], t[2]))
          /\ clock' = t[2]
    /\ storeOp' = [op |-> "create", id |-> nanoid(nanoIssued)]
    /\ nanoIssued' = nanoIssued + 1
    /\ StoreFrame

StoreUpdate ==
    /\ \E id \in StoreIds, updates \in { [name |-> "B"], [data |-> "d2"], [id |-> "test-1"] } :
          /\ projects' = updateProject(projects, id, updates)
          /\ storeOp' = [op |-> "update", id |-> id]
    /\ UNCHANGED <<clock, nanoIssued>>
    /\ StoreFrame

StoreDelete ==
    /\ \E id \in StoreIds :
          /\ projects' = deleteProject(projects, id)
          /\ storeOp' = [op |-> "delete", id |-> id]
    /\ UNCHANGED <<clock, nanoIssued>>
    /\ StoreFrame

StoreRename ==
    /\ \E id \in StoreIds, t \in clock..MaxClock :
          /\ projects' = renameProject(projects, id, "B", t)
          /\ clock' = t
          /\ storeOp' = [op |-> "rename", id |-> id]
    /\ UNCHANGED nanoIssued
    /\ StoreFrame

\* duplicateProject(id); nanoid() and Date.now() run only when the id is found
StoreDuplicate ==
    /\ Len(projects) < MaxProjects
    /\ nanoIssued < MaxIds
    /\ \E id \in StoreIds, t \in Readings :
          /\ projects' = duplicateProject(projects, id, nanoid(nanoIssued), t[1], t[2])
          /\ storeOp' = [op |-> "duplicate", id |-> id]
          /\ IF FindProject(projects, id) = <<>>
             THEN UNCHANGED <<clock, nanoIssued>>
             ELSE clock' = t[2] /\ nanoIssued' = nanoIssued + 1
    /\ StoreFrame

StoreClear ==
    /\ projects' = <<>>
    /\ storeOp' = [op |-> "clear", id |-> ""]
    /\ UNCHANGED <<clock, nanoIssued>>
    /\ StoreFrame

StoreNext ==
    \/ StoreCreate \/ StoreCreateNew \/ StoreUpdate \/ StoreDelete
    \/ StoreRename \/ StoreDuplicate \/ StoreClear

SpecStore == StoreInit /\ [][StoreNext]_vars

----------------------------------------------------------------------------
(* The beam editor: useBeamEditor *)

MaxSupports == 1
MaxLoads == 1

BeamSupport(id, type, position) == [id |-> id, type |-> type, position |-> position]

BeamLoad(id, type, magnitude, position, start, end) ==
    [id |-> id, type |-> type, magnitude |-> magnitude, direction |-> "down",
     position |-> position, start |-> start, end |-> end]

\* Math.max(0, Math.min(length, v))
ClampTo(length, v) == Max2(Q(0), Min2(length, v))

setLength(state, length) == [state EXCEPT !.length = Max2(Frac(1, 10), length)]

setEI(state, ei) == [state EXCEPT !.ei = Max2(Q(1), ei)]

\* seen is the state.length of the render that made the callback
addSupport(state, seen, id, type, position) ==
    [state EXCEPT !.supports = Append(@, BeamSupport(id, type, ClampTo(seen, position)))]

updateSupport(state, id, updates) ==
    [state EXCEPT !.supports =
        [i \in 1..Len(@) |->
            IF @[i].id = id
            THEN [Spread(@[i], updates) EXCEPT
                    !.position = IF "position" \in DOMAIN updates
                                 THEN ClampTo(state.length, updates.position)
                                 ELSE state.supports[i].position]
            ELSE @[i]]]

deleteSupport(state, id) ==
    [state EXCEPT !.supports = SelectSeq(@, LAMBDA sup : sup.id # id)]

\* end is falsy when it is left out or 0
addLoad(state, seen, id, type, magnitude, positionOrStart, end) ==
    [state EXCEPT !.loads = Append(@,
        IF type = "udl"
        THEN BeamLoad(id, type, magnitude, Undef,
                      ClampTo(seen, positionOrStart),
                      IF end # Undef /\ end # Q(0) THEN ClampTo(seen, end)
                      ELSE Min2(seen, Add(positionOrStart, Q(1))))
        ELSE BeamLoad(id, type, magnitude, ClampTo(seen, positionOrStart), Undef, Undef))]

\* lines 124-134: the spread, then each position that is defined is clamped
ClampLoad(length, updated) ==
    [updated EXCEPT
        !.position = IF @ # Undef THEN ClampTo(length, @) ELSE @,
        !.start    = IF @ # Undef THEN ClampTo(length, @) ELSE @,
        !.end      = IF @ # Undef THEN ClampTo(length, @) ELSE @]

updateLoad(state, id, updates) ==
    [state EXCEPT !.loads =
        [i \in 1..Len(@) |->
            IF @[i].id = id THEN ClampLoad(state.length, Spread(@[i], updates)) ELSE @[i]]]

deleteLoad(state, id) ==
    [state EXCEPT !.loads = SelectSeq(@, LAMBDA load : load.id # id)]

EditorLengths == { Q(0), Q(5), Q(20) }
EditorPositions == { Q(-5), Q(5), Q(15) }
EditorIds == { nanoid(k) : k \in 0..(MaxIds - 1) } \cup {"missing"}

EditorInit ==
    /\ LinIdle /\ BeamIdle /\ FrameIdle /\ WrapIdle /\ FemIdle /\ StoreIdle
    /\ beamDiagrams = NoDiagrams
    /\ editor = NewEditor
    /\ editorSeen = Q(10)
    /\ nanoIssued = 0

EditorFrame ==
    UNCHANGED <<laVars, beamVars, frameVars, wrapVars, femVars, storeVars, beamDiagrams>>

\* the component renders again: the callbacks are made anew over the state
EditorRender ==
    /\ editorSeen # editor.length
    /\ editorSeen' = editor.length
    /\ UNCHANGED <<editor, nanoIssued>>
    /\ EditorFrame

EditorSetLength ==
    /\ \E length \in EditorLengths : editor' = setLength(editor, length)
    /\ UNCHANGED <<editorSeen, nanoIssued>>
    /\ EditorFrame

EditorSetEI ==
    /\ \E ei \in { Q(0), Q(100) } : editor' = setEI(editor, ei)
    /\ UNCHANGED <<editorSeen, nanoIssued>>
    /\ EditorFrame

EditorAddSupport ==
    /\ Len(editor.supports) < MaxSupports
    /\ nanoIssued < MaxIds
    /\ \E type \in {"pinned", "roller"}, position \in EditorPositions :
          editor' = addSupport(editor, editorSeen, nanoid(nanoIssued), type, position)
    /\ nanoIssued' = nanoIssued + 1
    /\ UNCHANGED editorSeen
    /\ EditorFrame

EditorUpdateSupport ==
    /\ \E id \in EditorIds,
          updates \in { [type |-> "fixed"], [position |-> Q(15)] } :
          editor' = updateSupport(editor, id, updates)
    /\ UNCHANGED <<editorSeen, nanoIssued>>
    /\ EditorFrame

EditorDeleteSupport ==
    /\ \E id \in EditorIds : editor' = deleteSupport(editor, id)
    /\ UNCHANGED <<editorSeen, nanoIssued>>
    /\ EditorFrame

EditorAddLoad ==
    /\ Len(editor.loads) < MaxLoads
    /\ nanoIssued < MaxIds
    /\ \E type \in {"point", "udl"}, positionOrStart \in EditorPositions,
          end \in {Undef, Q(0), Q(8)} :
          editor' = addLoad(editor, editorSeen, nanoid(nanoIssued), type, Q(10),
                            positionOrStart, end)
    /\ nanoIssued' = nanoIssued + 1
    /\ UNCHANGED editorSeen
    /\ EditorFrame

EditorUpdateLoad ==
    /\ \E id \in EditorIds,
          updates \in { [magnitude |-> Q(3)], [position |-> Q(15)],
                         [start |-> Q(-5), end |-> Q(15)] } :
          editor' = updateLoad(editor, id, updates)
    /\ UNCHANGED <<editorSeen, nanoIssued>>
    /\ EditorFrame

EditorDeleteLoad ==
    /\ \E id \in EditorIds : editor' = deleteLoad(editor, id)
    /\ UNCHANGED <<editorSeen, nanoIssued>>
    /\ EditorFrame

EditorNext ==
    \/ EditorRender \/ EditorSetLength \/ EditorSetEI
    \/ EditorAddSupport \/ EditorUpdateSupport \/ EditorDeleteSupport
    \/ EditorAddLoad \/ EditorUpdateLoad \/ EditorDeleteLoad

SpecEditor == EditorInit /\ [][EditorNext]_vars

----------------------------------------------------------------------------
(* Claims about the kernel *)

LinReturned == laPc = "done"
LinThrew == laPc = "threw"

HasZeroRow(M) == \E i \in 1..Len(M) : \A j \in 1..Len(M) : M[i][j] = Q(0)
HasZeroColumn(M) == \E j \in 1..Len(M) : \A i \in 1..Len(M) : M[i][j] = Q(0)

\* every entry of column c (0-based) at or below the diagonal is below 1e-12
ColumnBelowTol(aug, c) ==
    \A r \in (c + 1)..Len(aug) : AbsBelowInvSquare(aug[r][c + 1], PivotTolRoot)

\* C3: solveLinearSystem throws the singular-matrix error, and returns no
\* vector, exactly when in some elimination column the largest-magnitude entry
\* at or below the diagonal is below 1e-12; a matrix with an all-zero row or
\* column never returns.
C3_SingularExactlyOnSmallPivot ==
    /\ [][(laPc = "eliminate" /\ col < Len(A))
            => ((laPc' = "threw") <=> ColumnBelowTol(augmented, col))]_vars
    /\ [](LinThrew => (x = <<>> /\ ColumnBelowTol(augmented, col)))
    /\ []((HasZeroRow(A) \/ HasZeroColumn(A)) => ~LinReturned)
    /\ [](LinReturned =>
            \A c \in 1..Len(A) : ~AbsBelowInvSquare(augmented[c][c], PivotTolRoot))

\* a throw in the second column of a matrix with no zero row or column
C3_Witness ==
    /\ LinThrew
    /\ col = 1
    /\ ~HasZeroRow(A) /\ ~HasZeroColumn(A)

\* C5: for a non-singular square A and any b of its length, solveLinearSystem
\* returns x of that length with A.x = b (exact arithmetic); it throws only
\* when det(A) = 0.
C5_SolutionSatisfiesSystem ==
    /\ (LinThrew => determinant(A) = Q(0))
    /\ (LinReturned =>
            /\ determinant(A) # Q(0)
            /\ Len(x) = Len(A)
            /\ multiplyMatrixVector(A, x) = b)

\* a returned solution of a system whose first diagonal entry is 0 (a row swap
\* was required) and whose solution is not the zero vector
C5_Witness ==
    /\ LinReturned
    /\ Len(A) = 2
    /\ A[1][1] = Q(0)
    /\ \E i \in 1..Len(x) : x[i] # Q(0)

----------------------------------------------------------------------------
(* Claims about ContinuousBeamSolver.solve *)

BeamSolved == beamPc = "done"
BeamReturned == BeamSolved /\ beamOutcome.status = "returned"
BeamThrew == BeamSolved /\ beamOutcome.status = "threw"

RECURSIVE SumVertical(_, _)
SumVertical(reactions, i) ==
    IF i > Len(reactions) THEN Q(0)
    ELSE Add(reactions[i].vertical, SumVertical(reactions, i + 1))

\* the vertical force a load applies: point magnitude, UDL magnitude times
\* loaded length, VDL mean intensity times loaded length, nothing for a moment
VerticalForce(load) ==
    IF load.type = "point" THEN load.magnitude
    ELSE IF load.type = "udl"
         THEN Mul(load.magnitude, Sub(load.endPosition, load.startPosition))
    ELSE IF load.type = "vdl"
         THEN Mul(Div(Add(load.w1, load.w2), Q(2)), Sub(load.endPosition, load.startPosition))
    ELSE Q(0)

RECURSIVE SumApplied(_, _)
SumApplied(loads, i) ==
    IF i > Len(loads) THEN Q(0)
    ELSE Add(VerticalForce(loads[i]), SumApplied(loads, i + 1))

DocSpanEI(doc, span) ==
    getSpanEI(span, Nullish(doc.defaultEI, Q(DefaultEI)), doc.defaultE, doc.defaultEUnit,
              doc.defaultI, doc.defaultIUnit)

SpanIsBad(doc, span) == Le(span.length, Q(0)) \/ Le(DocSpanEI(doc, span), Q(0))
HasBadSpan(doc) == \E i \in DOMAIN doc.spans : SpanIsBad(doc, doc.spans[i])

SpanLengthOf(doc, spanId) ==
    LET i == CHOOSE i \in DOMAIN doc.spans : doc.spans[i].id = spanId
    IN  doc.spans[i].length

OutOfSpan(position, L) == Lt(position, Q(0)) \/ Gt(position, L)

LoadOutOfRange(doc, load) ==
    /\ \E i \in DOMAIN doc.spans : doc.spans[i].id = load.spanId
    /\ LET L == SpanLengthOf(doc, load.spanId)
       IN  IF load.type \in {"point", "moment"} THEN OutOfSpan(load.position, L)
           ELSE OutOfSpan(load.startPosition, L) \/ OutOfSpan(load.endPosition, L)

HasOutOfRangeLoad(doc) == \E i \in DOMAIN doc.loads : LoadOutOfRange(doc, doc.loads[i])

NodeIds(doc) == {doc.nodes[i].id : i \in DOMAIN doc.nodes}

\* a document that keeps every rule of the data model: nodes in order, spans
\* between nodes of the document with positive length and rigidity, loads on
\* spans of the document and inside them
WellFormed(doc) ==
    /\ Len(doc.nodes) >= 2 /\ Len(doc.spans) >= 1
    /\ \A i \in DOMAIN doc.spans :
          /\ doc.spans[i].nodeStartId \in NodeIds(doc)
          /\ doc.spans[i].nodeEndId \in NodeIds(doc)
    /\ ~HasBadSpan(doc)
    /\ \A i \in DOMAIN doc.loads :
          /\ \E j \in DOMAIN doc.spans : doc.spans[j].id = doc.loads[i].spanId
          /\ ~LoadOutOfRange(doc, doc.loads[i])

RestraintTotal(nodes) ==
    2 * Cardinality({i \in DOMAIN nodes : nodes[i].supportType = "fixed"})
      + Cardinality({i \in DOMAIN nodes : nodes[i].supportType \in {"pinned", "roller"}})

\* C1: for every beam the solver accepts, the vertical reactions sum to the
\* applied vertical load within 1e-3 (stated here for the well-formed
\* documents only; it fails already there).
C1_ReactionsBalanceLoads ==
    (BeamReturned /\ WellFormed(beamData))
        => Lt(Abs(Sub(SumVertical(beamOutcome.reactions, 1), SumApplied(beamData.loads, 1))),
              Frac(1, 1000))

\* C2: a beam with fewer than 2 nodes, or no span, or fewer than 2 restraints
\* (fixed 2, pinned and roller 1, free 0) makes solve throw from its
\* validation step, before any FEM, matrix or reaction is computed, and no
\* result comes back.
C2_UnstableRejected ==
    (BeamSolved /\ (\/ Len(beamData.nodes) < 2
                    \/ Len(beamData.spans) < 1
                    \/ RestraintTotal(beamData.nodes) < 2))
        => /\ beamOutcome.status = "threw"
           /\ beamOutcome.error \in {"Beam must have at least 2 nodes",
                                     "Beam must have at least 1 span",
                                     "Beam is unstable - insufficient supports"}
           /\ beamOutcome.steps = <<"validate">>
           /\ beamOutcome.reactions = <<>>
           /\ beamOutcome.endMoments = <<>>

C2_Witness ==
    /\ BeamThrew
    /\ Len(beamData.nodes) = 2 /\ Len(beamData.spans) = 1
    /\ RestraintTotal(beamData.nodes) = 1
    /\ Len(beamData.loads) > 0
    /\ beamOutcome.error = "Beam is unstable - insufficient supports"

\* the end moments of the spans meeting at a node, summed
RECURSIVE MomentSumAt(_, _, _, _)
MomentSumAt(spans, endMoments, nodeId, i) ==
    IF i > Len(spans) THEN Q(0)
    ELSE Add(Add(IF spans[i].nodeStartId = nodeId THEN endMoments[i].mStart ELSE Q(0),
                 IF spans[i].nodeEndId = nodeId THEN endMoments[i].mEnd ELSE Q(0)),
             MomentSumAt(spans, endMoments, nodeId, i + 1))

\* C6: after a successful solve the end moments at every node that is not
\* fixed sum to zero, with or without settlements (stated for well-formed
\* documents; it fails for a settlement between two nodes of unknown rotation).
C6_JointMomentsBalance ==
    (BeamReturned /\ WellFormed(beamData))
        => \A i \in DOMAIN beamData.nodes :
              beamData.nodes[i].supportType # "fixed"
                  => MomentSumAt(beamData.spans, beamOutcome.endMoments,
                                 beamData.nodes[i].id, 1) = Q(0)

\* C9: a load positioned outside its span makes solve throw; it is never
\* clamped into the span and solved.
C9_OutOfRangeLoadRejected ==
    (BeamSolved /\ HasOutOfRangeLoad(beamData)) => beamOutcome.status = "threw"

\* C10: a span of length <= 0 or effective EI <= 0 makes solve throw, loaded
\* or not, with or without unknown rotations.
C10_BadSpanRejected ==
    (BeamSolved /\ HasBadSpan(beamData)) => beamOutcome.status = "threw"

----------------------------------------------------------------------------
(* Claims about both solvers *)

FrameSolved == framePc = "done"
FrameReturned == FrameSolved /\ frameOutcome.status = "returned"
FrameThrew == FrameSolved /\ frameOutcome.status = "threw"

\* C7: on one instance of either solver, after any earlier solve calls,
\* those that threw included, a call ends as the same call on a freshly
\* constructed instance ends: the same result, or the same error.
C7_FreshInstanceEquivalence ==
    /\ BeamSolved => beamOutcome = BeamSolve(NewBeamSolver, beamData).outcome
    /\ FrameSolved => frameOutcome = FrameSolve(NewFrameSolver, frameData).outcome

\* a frame solve that returned displacements on an instance whose first call
\* threw the singular-matrix error
C7_Witness ==
    /\ FrameReturned
    /\ frameCalls = 2
    /\ frameEarlier = <<"Singular">>
    /\ frameOutcome.totalDOFs > 0

WrapSolved == wrapPc = "done"

\* the error solveLinearSystem raises on the system a beam solver instance
\* builds from the fields its last call set ("" if the call never got there
\* or the kernel returned)
BeamKernelError(inst) ==
    IF validateBeam(inst) # "" THEN ""
    ELSE With(calculateAllFEM(inst), LAMBDA fems :
            IF fems.error # "" \/ Len(identifyDOFs(inst)) = 0 THEN ""
            ELSE With(buildSystem(inst, identifyDOFs(inst), fems.femBySpan), LAMBDA sys :
                    IF sys.error # "" THEN ""
                    ELSE solveLinearSystem(sys.K, sys.F).error))

\* the same for a frame solver instance
FrameKernelError(inst) ==
    IF FrameCalculateAllFEM(inst).error # "" \/ inst.totalDOFs <= 0 THEN ""
    ELSE solveLinearSystem(buildGlobalStiffnessMatrix(inst),
                           buildGlobalLoadVector(inst)).error

\* C4: whenever solveLinearSystem raises the singular-matrix error inside a
\* solve call, the caller of that entry point gets that error thrown:
\* ContinuousBeamSolver.solve, FrameAnalysisSolver.solve and the BeamSolver
\* wrapper's solve neither catch it nor return a result in its place.
C4_SingularReachesCaller ==
    /\ (BeamSolved /\ BeamKernelError(beamSolver) = "Singular")
          => (BeamThrew /\ beamOutcome.error = "Singular")
    /\ (FrameSolved /\ FrameKernelError(frameSolver) = "Singular")
          => (FrameThrew /\ frameOutcome.error = "Singular")
    /\ (WrapSolved /\ BeamKernelError(wrapSolver) = "Singular")
          => (wrapOutcome.status = "threw" /\ wrapOutcome.error = "Singular")

\* the part of C4 that concerns the two solver classes themselves
C4_SolversPropagate ==
    /\ (BeamSolved /\ BeamKernelError(beamSolver) = "Singular")
          => (BeamThrew /\ beamOutcome.error = "Singular")
    /\ (FrameSolved /\ FrameKernelError(frameSolver) = "Singular")
          => (FrameThrew /\ frameOutcome.error = "Singular")

\* the wrapper answers a singular system with the placeholder result
C4_WrapperSubstitutes ==
    /\ WrapSolved
    /\ BeamKernelError(wrapSolver) = "Singular"
    /\ wrapOutcome.status = "returned"
    /\ wrapOutcome.producedBy = "placeholder"
    /\ wrapOutcome.caught = "Singular"
    /\ wrapOutcome.reactions = <<Q(4), Q(4)>>

----------------------------------------------------------------------------
(* Claims about the frame solver *)

\* the entries of a sequence that satisfy a test, in order
SelectWhere(seq, Test(_)) == SelectSeq(seq, Test)

SupportedNodes(doc) == SelectWhere(doc.nodes, LAMBDA n : n.support # "")
UnsupportedNodes(doc) == SelectWhere(doc.nodes, LAMBDA n : n.support = "")

\* a single-bay, single-story frame: two supported base nodes of one support
\* type on one level, two unsupported top nodes on one level above them,
\* joined by two columns and a beam of one rigidity
SymmetricPortal(doc) ==
    /\ Len(doc.nodes) = 4 /\ Len(doc.members) = 3
    /\ Len(SupportedNodes(doc)) = 2 /\ Len(UnsupportedNodes(doc)) = 2
    /\ SupportedNodes(doc)[1].support = SupportedNodes(doc)[2].support
    /\ SupportedNodes(doc)[1].y = SupportedNodes(doc)[2].y
    /\ UnsupportedNodes(doc)[1].y = UnsupportedNodes(doc)[2].y
    /\ Gt(UnsupportedNodes(doc)[1].y, SupportedNodes(doc)[1].y)
    /\ \A i \in 1..3 : doc.members[i].eiMode = doc.members[1].eiMode
                        /\ doc.members[i].I = doc.members[1].I
                        /\ doc.members[i].A = doc.members[1].A

\* its only load is a horizontal force at a top node
OneLateralLoad(doc) ==
    /\ Len(doc.loads) = 1
    /\ isJointLoad(doc.loads[1])
    /\ doc.loads[1].fx # Undef /\ doc.loads[1].fx # Q(0)
    /\ doc.loads[1].fy = Undef /\ doc.loads[1].moment = Undef
    /\ \E i \in 1..2 : UnsupportedNodes(doc)[i].id = doc.loads[1].nodeId

\* the reported horizontal displacements of the two top nodes
TopDx(doc, outcome) ==
    LET at(id) == SelectWhere(outcome.nodeDisplacements, LAMBDA d : d.nodeId = id)[1].dx
    IN  <<at(UnsupportedNodes(doc)[1].id), at(UnsupportedNodes(doc)[2].id)>>

\* C11: on a symmetric single-bay, single-story frame with isSway = true and
\* one horizontal joint load at a top node, both top nodes are reported with
\* the same nonzero horizontal displacement, in the direction of the load.
C11_SwayCoupling ==
    (FrameReturned /\ SymmetricPortal(frameData) /\ OneLateralLoad(frameData)
        /\ frameData.isSway)
    => /\ TopDx(frameData, frameOutcome)[1] = TopDx(frameData, frameOutcome)[2]
       /\ Sgn(TopDx(frameData, frameOutcome)[1]) = Sgn(frameData.loads[1].fx)

\* the coupling is there when the top nodes carry one story index above 0
C11_CoupledWhenStoried ==
    (FrameReturned /\ SymmetricPortal(frameData) /\ OneLateralLoad(frameData)
        /\ frameData.isSway /\ UnsupportedNodes(frameData)[1].storyIndex > 0
        /\ UnsupportedNodes(frameData)[1].storyIndex
              = UnsupportedNodes(frameData)[2].storyIndex)
    => /\ TopDx(frameData, frameOutcome)[1] = TopDx(frameData, frameOutcome)[2]
       /\ Sgn(TopDx(frameData, frameOutcome)[1]) = Sgn(frameData.loads[1].fx)

\* C12: on the same frame and load with isSway = false, the horizontal
\* displacement reported at both top nodes is 0 within 1e-3.
C12_BracedNoSway ==
    (FrameReturned /\ SymmetricPortal(frameData) /\ OneLateralLoad(frameData)
        /\ ~frameData.isSway)
    => \A i \in 1..2 : Le(Abs(TopDx(frameData, frameOutcome)[i]), Frac(1, 1000))

\* a braced frame is reported with top displacements no smaller than those
\* of the same frame solved as a sway frame
C12_BracedMovesAsSway ==
    /\ FrameReturned /\ SymmetricPortal(frameData) /\ OneLateralLoad(frameData)
    /\ ~frameData.isSway
    /\ UnsupportedNodes(frameData)[1].storyIndex > 0
    /\ With(FrameSolve(NewFrameSolver, [frameData EXCEPT !.isSway = TRUE]).outcome,
            LAMBDA sway :
               \E i \in 1..2 : Ge(Abs(TopDx(frameData, frameOutcome)[i]),
                                  Abs(TopDx(frameData, sway)[i])))

RECURSIVE SumOver(_, _, _)
\* the sum of f(seq[i]) for i = lo..Len(seq)
SumOver(seq, f(_), lo) ==
    IF lo > Len(seq) THEN Q(0) ELSE Add(f(seq[lo]), SumOver(seq, f, lo + 1))

\* the resultant of a member load, acting against the member's local y axis
MemberLoadResultant(doc, load) ==
    LET ms == SelectWhere(doc.members, LAMBDA m : m.id = load.memberId)
        L  == IF ms = <<>> THEN Q(0) ELSE getMemberLength(ms[1], doc.nodes)
    IN  IF isMemberPointLoad(load) THEN load.magnitude
        ELSE IF isMemberUDL(load)
             THEN Mul(load.magnitude, Mul(Sub(load.endPosition, load.startPosition), L))
        ELSE IF isMemberVDL(load)
             THEN Mul(Div(Add(load.w1, load.w2), Q(2)),
                      Mul(Sub(load.endPosition, load.startPosition), L))
        ELSE Q(0)

\* the global components <<Fx, Fy>> of one applied load
AppliedForce(doc, load) ==
    IF isJointLoad(load)
    THEN <<Nullish(load.fx, Q(0)), Nullish(load.fy, Q(0))>>
    ELSE LET ms == SelectWhere(doc.members, LAMBDA m : m.id = load.memberId)
             cs == IF ms = <<>> THEN [cos |-> Q(1), sin |-> Q(0)]
                   ELSE getMemberAngle(ms[1], doc.nodes)
             W  == MemberLoadResultant(doc, load)
         IN  <<Mul(cs.sin, W), Neg(Mul(cs.cos, W))>>

TotalApplied(doc, axis) == SumOver(doc.loads, LAMBDA l : AppliedForce(doc, l)[axis], 1)

\* C13: whenever solve returns, the sum of the reactions' fx equals in
\* magnitude the total applied horizontal load and the sum of their fy the
\* total applied vertical load (joint forces and member-load resultants),
\* within 1e-3.
C13_FrameEquilibrium ==
    FrameReturned =>
        /\ Le(Abs(Sub(Abs(SumOver(frameOutcome.reactions, LAMBDA r : r.fx, 1)),
                      Abs(TotalApplied(frameData, 1)))), Frac(1, 1000))
        /\ Le(Abs(Sub(Abs(SumOver(frameOutcome.reactions, LAMBDA r : r.fy, 1)),
                      Abs(TotalApplied(frameData, 2)))), Frac(1, 1000))

\* every load names a node or a member of the document, and every member
\* joins two of its nodes that are apart
ReferencesResolve(doc) ==
    /\ \A i \in 1..Len(doc.loads) :
          IF isJointLoad(doc.loads[i])
          THEN \E j \in 1..Len(doc.nodes) : doc.nodes[j].id = doc.loads[i].nodeId
          ELSE \E j \in 1..Len(doc.members) : doc.members[j].id = doc.loads[i].memberId
    /\ \A i \in 1..Len(doc.members) :
          /\ FindNodeIndex(doc.nodes, doc.members[i].nodeStartId, 1) # 0
          /\ FindNodeIndex(doc.nodes, doc.members[i].nodeEndId, 1) # 0
          /\ Gt(getMemberLength(doc.members[i], doc.nodes), Q(0))

\* the balance holds on the documents whose references resolve
C13_BalancedWhenResolved == ReferencesResolve(frameData) => C13_FrameEquilibrium

\* the DOF indices a mapping holds, in the order dx, dy, rotation
MappingDOFs(m) == SelectWhere(<<m.dxDOF, m.dyDOF, m.rotDOF>>, LAMBDA d : d # NoDOF)

RECURSIVE AssignedDOFs(_, _)
\* all of them, over the mappings i..Len(dofMappings)
AssignedDOFs(dofMappings, i) ==
    IF i > Len(dofMappings) THEN <<>>
    ELSE MappingDOFs(dofMappings[i]) \o AssignedDOFs(dofMappings, i + 1)

SeqRange(seq) == { seq[i] : i \in 1..Len(seq) }

\* the mapping has the DOFs its node's support leaves free
MappingFitsSupport(node, m) ==
    /\ m.nodeId = node.id
    /\ CASE node.support = "fixed" ->
               m.dxDOF = NoDOF /\ m.dyDOF = NoDOF /\ m.rotDOF = NoDOF
         [] node.support = "pinned" ->
               m.dxDOF = NoDOF /\ m.dyDOF = NoDOF /\ m.rotDOF # NoDOF
         [] node.support = "roller" ->
               (m.dxDOF = NoDOF) # (m.dyDOF = NoDOF) /\ m.rotDOF # NoDOF
         [] node.support = "" ->
               m.dxDOF # NoDOF /\ m.dyDOF # NoDOF /\ m.rotDOF # NoDOF

\* C14: after assignDOFs a fixed node has 0 DOFs, a pinned node its
\* rotation, a roller one translation and its rotation, an unsupported node
\* dx, dy and rotation; in a non-sway frame no index is given twice; in every
\* frame the indices given are exactly 0..totalDOFs-1.
C14_DOFAssignment ==
    FrameSolved =>
        /\ Len(frameSolver.dofMappings) = Len(frameData.nodes)
        /\ \A i \in 1..Len(frameData.nodes) :
              MappingFitsSupport(frameData.nodes[i], frameSolver.dofMappings[i])
        /\ ~frameData.isSway =>
              Cardinality(SeqRange(AssignedDOFs(frameSolver.dofMappings, 1)))
                  = Len(AssignedDOFs(frameSolver.dofMappings, 1))
        /\ SeqRange(AssignedDOFs(frameSolver.dofMappings, 1))
              = 0..(frameSolver.totalDOFs - 1)

\* a solved non-sway portal on two pinned feet: 1 + 3 + 3 + 1 DOFs
C14_Witness ==
    /\ FrameReturned
    /\ ~frameData.isSway
    /\ frameSolver.totalDOFs = 8
    /\ Len(frameData.nodes) = 4
    /\ \E i \in 1..4 : frameData.nodes[i].support = "pinned"

\* the positions in frame.nodes of the unsupported nodes that carry a story index
StoriedFreeNodes(doc) ==
    { i \in 1..Len(doc.nodes) : doc.nodes[i].support = "" /\ doc.nodes[i].storyIndex # NoStory }

\* the DOF indices held as a vertical or a rotation DOF, one entry per holder
VerticalAndRotationDOFs(dofMappings) ==
    SelectWhere([k \in 1..(2 * Len(dofMappings)) |->
                    IF k % 2 = 1 THEN dofMappings[(k + 1) \div 2].dyDOF
                    ELSE dofMappings[k \div 2].rotDOF],
                LAMBDA d : d # NoDOF)

HorizontalDOFs(dofMappings) == { dofMappings[i].dxDOF : i \in 1..Len(dofMappings) }

\* no vertical or rotation DOF is held twice, nor held as a horizontal DOF
VerticalAndRotationUnshared(dofMappings) ==
    /\ Cardinality(SeqRange(VerticalAndRotationDOFs(dofMappings)))
          = Len(VerticalAndRotationDOFs(dofMappings))
    /\ SeqRange(VerticalAndRotationDOFs(dofMappings)) \cap HorizontalDOFs(dofMappings) = {}

\* the shared index of a story was taken when its first node was scanned:
\* it is the index just before that node's own vertical DOF
AllocatedAtFirst(doc, dofMappings, among) ==
    \A i \in among :
        (\A j \in among : doc.nodes[j].storyIndex = doc.nodes[i].storyIndex => i <= j)
            => dofMappings[i].dxDOF = dofMappings[i].dyDOF - 1

\* story coupling over the unsupported nodes at the positions among
StoryCoupling(doc, dofMappings, among) ==
    /\ \A i \in among : \A j \in among :
          (doc.nodes[i].storyIndex = doc.nodes[j].storyIndex)
              <=> (dofMappings[i].dxDOF = dofMappings[j].dxDOF)
    /\ AllocatedAtFirst(doc, dofMappings, among)
    /\ VerticalAndRotationUnshared(dofMappings)

\* C15: in a sway frame the unsupported nodes that share a story index have
\* one and the same horizontal DOF, nodes of different stories have different
\* ones, the shared index is allocated once at the first node of the story in
\* scan order, and vertical and rotation DOFs are never shared.
C15_StorySwayDOF ==
    (FrameSolved /\ frameData.isSway)
        => StoryCoupling(frameData, frameSolver.dofMappings, StoriedFreeNodes(frameData))

\* the same over the stories above the ground story, which is what line 170 tests
C15_CoupledAboveGround ==
    (FrameSolved /\ frameData.isSway)
        => StoryCoupling(frameData, frameSolver.dofMappings,
                         { i \in StoriedFreeNodes(frameData) : frameData.nodes[i].storyIndex > 0 })

\* a solved sway frame with two nodes on story 1 and one on story 2
C15_TwoStoriesSolved ==
    /\ FrameReturned
    /\ frameData.isSway
    /\ { frameData.nodes[i].storyIndex : i \in StoriedFreeNodes(frameData) } = {1, 2}
    /\ Len(frameSolver.swayDOFs) = 2

----------------------------------------------------------------------------
(* Claims about the beam solver and its fixed-end moments *)

\* one span between a pinned and a roller node, under one point load at its middle
MidspanLoaded(doc) ==
    /\ Len(doc.nodes) = 2 /\ Len(doc.spans) = 1 /\ Len(doc.loads) = 1
    /\ { doc.nodes[1].supportType, doc.nodes[2].supportType } = {"pinned", "roller"}
    /\ { doc.spans[1].nodeStartId, doc.spans[1].nodeEndId }
          = { doc.nodes[1].id, doc.nodes[2].id }
    /\ Gt(doc.spans[1].length, Q(0))
    /\ isPointLoad(doc.loads[1])
    /\ doc.loads[1].spanId = doc.spans[1].id
    /\ doc.loads[1].position = Div(doc.spans[1].length, Q(2))

\* C16: on a single span of length L and positive EI between a pinned and a
\* roller support, under a point load P at midspan, calculatePointLoadFEM gives -PL/8 at the
\* start and +PL/8 at the end, and solve returns two vertical reactions of
\* P/2 each.
C16_MidspanPointLoad ==
    (BeamSolved /\ MidspanLoaded(beamData)
        /\ Gt(InstSpanEI(beamSolver, beamData.spans[1]), Q(0))) =>
        /\ calculatePointLoadFEM(beamData.loads[1].magnitude, beamData.spans[1].length,
                                 beamData.loads[1].position)
              = FemOk(Neg(Div(Mul(beamData.loads[1].magnitude, beamData.spans[1].length), Q(8))),
                      Div(Mul(beamData.loads[1].magnitude, beamData.spans[1].length), Q(8)))
        /\ BeamReturned
        /\ Len(beamOutcome.reactions) = 2
        /\ \A i \in 1..2 :
              beamOutcome.reactions[i].vertical = Div(beamData.loads[1].magnitude, Q(2))

\* a span of length 6 under a downward (negative) load at its middle, solved
C16_Witness ==
    /\ BeamReturned
    /\ MidspanLoaded(beamData)
    /\ beamData.spans[1].length = Q(6)
    /\ beamData.loads[1].magnitude = Q(-6)
    /\ beamOutcome.reactions[1].vertical = Q(-3)

\* a support of the document has settled
SupportSettled(doc) ==
    \E i \in 1..Len(doc.nodes) :
        /\ doc.nodes[i].supportType # "free"
        /\ doc.nodes[i].settlement # Undef
        /\ doc.nodes[i].settlement # Q(0)

\* some span end moment of the outcome is not zero
SomeEndMoment(outcome) ==
    \E i \in 1..Len(outcome.endMoments) :
        outcome.endMoments[i].mStart # Q(0) \/ outcome.endMoments[i].mEnd # Q(0)

\* the settlements of the supports at the two ends of some span differ
DifferentialSettlement(doc) ==
    \E i \in 1..Len(doc.nodes) : \E j \in 1..Len(doc.nodes) :
        /\ \E k \in 1..Len(doc.spans) :
              doc.spans[k].nodeStartId = doc.nodes[i].id /\ doc.spans[k].nodeEndId = doc.nodes[j].id
        /\ Nullish(doc.nodes[i].settlement, Q(0)) # Nullish(doc.nodes[j].settlement, Q(0))

ReactingNodes == SelectWhere(beamSolver.sortedNodes, LAMBDA node : node.supportType # "free")

\* the positions in spans of the spans that start or end at the node
SpansTouching(doc, nodeId) ==
    { k \in 1..Len(doc.spans) :
        doc.spans[k].nodeStartId = nodeId \/ doc.spans[k].nodeEndId = nodeId }

\* the first of them
AdjacentSpan(doc, nodeId) ==
    doc.spans[CHOOSE k \in SpansTouching(doc, nodeId) :
                  \A other \in SpansTouching(doc, nodeId) : k <= other]

\* reaction i carries, for a fixed node, startSide applied to the adjacent
\* span's mStart if the node starts that span and the span's mEnd if it ends
\* it, and carries no moment for any other node
MomentReactionIs(i, startSide(_)) ==
    LET node == ReactingNodes[i]
        r    == beamOutcome.reactions[i]
    IN  /\ r.nodeId = node.id
        /\ IF node.supportType = "fixed" /\ SpansTouching(beamData, node.id) # {}
           THEN LET span    == AdjacentSpan(beamData, node.id)
                    moments == FindMoments(beamOutcome.endMoments, span.id, 1)
                IN  r.moment = IF span.nodeStartId = node.id THEN startSide(moments.mStart)
                               ELSE moments.mEnd
           ELSE r.moment = Undef

FemCalled(fn) == femPc = "done" /\ femCall.fn = fn

\* the call loads the whole span: from 0 to L, or to an end position left out
WholeSpan(call) ==
    call.startPos = Q(0) /\ (call.endPos = Undef \/ call.endPos = call.L)

\* both end moments of the two results lie within tol of each other
FemWithin(r, s, tol) ==
    /\ r.error = "" /\ s.error = ""
    /\ Le(Abs(Sub(r.femStart, s.femStart)), tol)
    /\ Le(Abs(Sub(r.femEnd, s.femEnd)), tol)

\* C19: for every L > 0 and every pair (w1, w2), negative and mixed-sign
\* intensities included, the full-span calculateVDLFEM is
\* femStart = -(w1/30 + w2/20) L^2 and femEnd = +(w1/20 + w2/30) L^2; hence
\* VDL(w, w, L) is the full-span UDL result within 1e-2.
C19_FullSpanVDL ==
    (FemCalled("vdl") /\ Gt(femCall.L, Q(0)) /\ WholeSpan(femCall)) =>
        /\ femResult
              = FemOk(Neg(Mul(Add(Div(femCall.w1, Q(30)), Div(femCall.w2, Q(20))),
                              Mul(femCall.L, femCall.L))),
                      Mul(Add(Div(femCall.w1, Q(20)), Div(femCall.w2, Q(30))),
                          Mul(femCall.L, femCall.L)))
        /\ femCall.w1 = femCall.w2 =>
              FemWithin(femResult,
                        calculateUDLFEM(femCall.w1, femCall.L, Q(0), femCall.L),
                        Frac(1, 100))

\* a full-span call with intensities of opposite sign, decreasing along the span
C19_Witness ==
    /\ FemCalled("vdl") /\ WholeSpan(femCall)
    /\ femCall.w1 = Q(5) /\ femCall.w2 = Q(-4) /\ femCall.L = Q(3)
    /\ femResult = FemOk(Frac(3, 10), Frac(21, 20))

\* the call loads a region 0 <= a < b <= L that is not the whole span
PartialRegion(call) ==
    /\ Le(Q(0), call.startPos) /\ Lt(call.startPos, call.endPos) /\ Le(call.endPos, call.L)
    /\ ~(call.startPos = Q(0) /\ call.endPos = call.L)

\* the point-load result for segment i of the 20 equal segments of the
\* region: the load w (b - a)/20 at the segment's midpoint
SegmentFEM(call, i) ==
    calculatePointLoadFEM(
        Mul(call.w1, Div(Sub(call.endPos, call.startPos), Q(UdlSegments))),
        call.L,
        Add(call.startPos,
            Mul(Frac(2 * i + 1, 2), Div(Sub(call.endPos, call.startPos), Q(UdlSegments)))))

SegmentTotal(call) ==
    FemOk(SumOver([i \in 1..UdlSegments |-> i - 1], LAMBDA i : SegmentFEM(call, i).femStart, 1),
          SumOver([i \in 1..UdlSegments |-> i - 1], LAMBDA i : SegmentFEM(call, i).femEnd, 1))

\* -wL^2/12 and +wL^2/12
FullSpanUDL(call) ==
    FemOk(Neg(Div(Mul(call.w1, Mul(call.L, call.L)), Q(12))),
          Div(Mul(call.w1, Mul(call.L, call.L)), Q(12)))

\* the loaded length is at least 95% of the span (line 125)
NearlyFull(call) == Ge(Sub(call.endPos, call.startPos), Mul(call.L, Frac(95, 100)))

C20_NearlyFullWitness ==
    /\ FemCalled("udl")
    /\ PartialRegion(femCall) /\ NearlyFull(femCall)
    /\ femCall.w1 # Q(0)
    /\ femResult = FullSpanUDL(femCall)
    /\ femResult # SegmentTotal(femCall)

----------------------------------------------------------------------------
(* Further claims about the kernel *)

----------------------------------------------------------------------------
(* Claims about the project store *)

HasId(list, id) == \E i \in 1..Len(list) : list[i].id = id

\* the step is the store operation op called with an id that is, or is not,
\* in the list
StoreStep(op, found) ==
    /\ storeOp'.op = op
    /\ HasId(projects, storeOp'.id) = found

RECURSIVE Without(_, _)
Without(list, id) ==
    IF list = <<>> THEN <<>>
    ELSE IF Head(list).id = id THEN Without(Tail(list), id)
    ELSE <<Head(list)>> \o Without(Tail(list), id)

\* C30: updateProject, renameProject, deleteProject and duplicateProject
\* called with an id no project has leave the list as it was; deleteProject
\* with an id in the list removes exactly the projects of that id.
C30_UnknownIdAndDelete ==
    [][/\ \A op \in {"update", "rename", "delete", "duplicate"} :
             StoreStep(op, FALSE) => projects' = projects
       /\ StoreStep("delete", TRUE) => projects' = Without(projects, storeOp'.id)]_vars

\* renameProject("missing", "B") has run on a list of two projects and both
\* still have the name "A"
C30_Witness ==
    /\ storeOp = [op |-> "rename", id |-> "missing"]
    /\ Len(projects) = 2
    /\ \A i \in 1..2 : projects[i].name = "A"

\* deleteProject("test-1") has run and left the one project of another id
C30_DeleteWitness ==
    /\ storeOp = [op |-> "delete", id |-> "test-1"]
    /\ Len(projects) = 1
    /\ projects[1].id = "id-1"

----------------------------------------------------------------------------
(* Claims about the beam editor *)

Within(length, v) == Le(Q(0), v) /\ Le(v, length)

\* every support position and every load position, start and end that is
\* set lies within [0, length]
PositionsWithin(state) ==
    /\ \A i \in 1..Len(state.supports) : Within(state.length, state.supports[i].position)
    /\ \A i \in 1..Len(state.loads) :
          /\ state.loads[i].position # Undef => Within(state.length, state.loads[i].position)
          /\ state.loads[i].start # Undef => Within(state.length, state.loads[i].start)
          /\ state.loads[i].end # Undef => Within(state.length, state.loads[i].end)

\* C29: after any sequence of the editor's operations the length is at
\* least 0.1, EI is at least 1, and every support position and every load
\* position, start and end lies within [0, current length].
C29_EditorInvariant ==
    /\ Ge(editor.length, Frac(1, 10))
    /\ Ge(editor.ei, Q(1))
    /\ PositionsWithin(editor)

\* the two lower bounds alone
C29_LengthAndEI == Ge(editor.length, Frac(1, 10)) /\ Ge(editor.ei, Q(1))

\* a support placed at the end of the beam of length 10, and the beam then
\* shortened to 5
C29_ShortenedUnderSupport ==
    /\ editor.length = Q(5)
    /\ Len(editor.supports) = 1
    /\ editor.supports[1].position = Q(10)

----------------------------------------------------------------------------
(* Further claims about the beam solver *)

\* the node of the document with that id (the first, as nodeIndexMap keeps the last
\* only when ids repeat, which no document here does)
DocNode(doc, id) == doc.nodes[CHOOSE i \in 1..Len(doc.nodes) : doc.nodes[i].id = id]

DocResolves(doc) ==
    \A k \in 1..Len(doc.spans) :
        /\ \E i \in 1..Len(doc.nodes) : doc.nodes[i].id = doc.spans[k].nodeStartId
        /\ \E i \in 1..Len(doc.nodes) : doc.nodes[i].id = doc.spans[k].nodeEndId

\* the two ends of the beam
LeftEnd(doc) ==
    (CHOOSE n \in SeqRange(doc.nodes) : \A m \in SeqRange(doc.nodes) : Le(n.position, m.position)).position
RightEnd(doc) ==
    (CHOOSE n \in SeqRange(doc.nodes) : \A m \in SeqRange(doc.nodes) : Ge(n.position, m.position)).position

\* the position that mirrors v about the middle of the beam
MirrorPosition(doc, v) == Sub(Add(LeftEnd(doc), RightEnd(doc)), v)

\* span t is span s seen from the other end of the beam
MirrorSpans(doc, s, t) ==
    /\ DocNode(doc, t.nodeStartId).position
          = MirrorPosition(doc, DocNode(doc, s.nodeEndId).position)
    /\ DocNode(doc, t.nodeEndId).position
          = MirrorPosition(doc, DocNode(doc, s.nodeStartId).position)
    /\ [t EXCEPT !.id = "", !.nodeStartId = "", !.nodeEndId = ""]
          = [s EXCEPT !.id = "", !.nodeStartId = "", !.nodeEndId = ""]

\* load q on span t is load p on span s seen from the other end
MirrorLoads(s, t, p, q) ==
    /\ p.spanId = s.id /\ q.spanId = t.id /\ p.type = q.type
    /\ IF isPointLoad(p)
       THEN q.magnitude = p.magnitude /\ q.position = Sub(s.length, p.position)
       ELSE IF isUDL(p)
       THEN /\ q.magnitude = p.magnitude
            /\ q.startPosition = Sub(s.length, p.endPosition)
            /\ q.endPosition = Sub(s.length, p.startPosition)
       ELSE IF isVDL(p)
       THEN /\ q.w1 = p.w2 /\ q.w2 = p.w1
            /\ q.startPosition = Sub(s.length, p.endPosition)
            /\ q.endPosition = Sub(s.length, p.startPosition)
       ELSE q.magnitude = Neg(p.magnitude) /\ q.position = Sub(s.length, p.position)

\* the beam and its loading are their own mirror image about midspan
MirrorSymmetric(doc) ==
    /\ Len(doc.nodes) >= 2 /\ Len(doc.spans) >= 1 /\ DocResolves(doc)
    /\ \A n \in SeqRange(doc.nodes) :
          Cardinality({ m \in SeqRange(doc.nodes) :
                /\ m.position = MirrorPosition(doc, n.position)
                /\ m.supportType = n.supportType
                /\ Nullish(m.settlement, Q(0)) = Nullish(n.settlement, Q(0)) }) = 1
    /\ \A s \in SeqRange(doc.spans) :
          /\ Gt(s.length, Q(0))
          /\ Sub(DocNode(doc, s.nodeEndId).position, DocNode(doc, s.nodeStartId).position)
                = s.length
          /\ \E t \in SeqRange(doc.spans) : MirrorSpans(doc, s, t)
    /\ \A p \in SeqRange(doc.loads) :
          \E s \in SeqRange(doc.spans), t \in SeqRange(doc.spans), q \in SeqRange(doc.loads) :
              MirrorSpans(doc, s, t) /\ MirrorLoads(s, t, p, q)

\* C24: for a beam and loading mirror-symmetric about midspan, solve returns
\* mirror-symmetric vertical reactions; a span of length L fixed at both
\* ends under a full-span UDL w has two vertical reactions of w L / 2.
C24_SymmetricReactions ==
    (BeamReturned /\ MirrorSymmetric(beamData)) =>
        \A r \in SeqRange(beamOutcome.reactions) :
            \E q \in SeqRange(beamOutcome.reactions) :
                /\ q.position = MirrorPosition(beamData, r.position)
                /\ q.vertical = r.vertical

----------------------------------------------------------------------------
(* Claims about the beam diagrams *)

DiagramsReturned == beamPc = "done" /\ beamOutcome.status = "returned"

DiagramNames == {"shear", "moment", "deflection"}

\* the beam's length: from its leftmost to its rightmost node
BeamLength(doc) == Sub(RightEnd(doc), LeftEnd(doc))

\* C22: every successful beam solve returns shear, bending-moment and
\* deflection diagrams of exactly 101 samples each, sample i of each at
\* x = i (beam length) / 100 for i = 0..100, the first at the left end of
\* the beam and the last at its right end.
C22_DiagramSamples ==
    DiagramsReturned =>
        \A name \in DiagramNames :
            /\ Len(beamDiagrams[name]) = 101
            /\ \A i \in 0..100 :
                   beamDiagrams[name][i + 1].x =
                       Div(Mul(Q(i), BeamLength(beamData)), Q(100))
            /\ beamDiagrams[name][1].x = LeftEnd(beamData)
            /\ beamDiagrams[name][101].x = RightEnd(beamData)

\* a solved beam whose left end is not at position 0
C22_OffsetBeam ==
    /\ DiagramsReturned
    /\ LeftEnd(beamData) # Q(0)

\* C26: for every beam that solve accepts, every reaction and every diagram
\* sample is a finite number, also under a VDL whose end intensities sum to
\* zero (w1 = -w2, or w1 = w2 = 0).
C26_FiniteResults ==
    DiagramsReturned =>
        /\ \A r \in SeqRange(beamOutcome.reactions) :
               IsFinite(r.vertical) /\ (r.moment # Undef => IsFinite(r.moment))
        /\ \A name \in DiagramNames : \A i \in 1..Len(beamDiagrams[name]) :
               IsFinite(beamDiagrams[name][i].x) /\ IsFinite(beamDiagrams[name][i].value)

\* a VDL of the document whose end intensities sum to zero
CancellingVDL(doc) ==
    \E l \in SeqRange(doc.loads) : isVDL(l) /\ Add(l.w1, l.w2) = Q(0)

\* the same for the beams that carry no such VDL
C26_FiniteWithoutCancellingVDL ==
    (DiagramsReturned /\ ~CancellingVDL(beamData)) =>
        /\ \A r \in SeqRange(beamOutcome.reactions) : IsFinite(r.vertical)
        /\ \A name \in DiagramNames : \A i \in 1..Len(beamDiagrams[name]) :
               IsFinite(beamDiagrams[name][i].value)

Reverse(seq) == Array([i \in 1..Len(seq) |-> seq[Len(seq) + 1 - i]])

\* the document with its nodes and its spans in the orders given
Reordered(doc, nodes, spans) == [doc EXCEPT !.nodes = nodes, !.spans = spans]

\* what a new solver returns for a document, diagrams included
SolvedAfresh(doc) ==
    With(BeamSolve(NewBeamSolver, doc), LAMBDA r :
        [outcome |-> r.outcome, diagrams |-> SolveDiagrams(r)])

\* the same reactions at each node, end moments of each span id, and shear
\* and moment samples as the solve of the state
SameAsSolved(other) ==
    /\ other.outcome.status = "returned"
    /\ SeqRange(other.outcome.reactions) = SeqRange(beamOutcome.reactions)
    /\ SeqRange(other.outcome.endMoments) = SeqRange(beamOutcome.endMoments)
    /\ other.diagrams.shear = beamDiagrams.shear
    /\ other.diagrams.moment = beamDiagrams.moment

\* C27: the result of solve does not depend on the order of beam.nodes or of
\* beam.spans: with either array reversed the reaction at each node, the end
\* moments of each span id and every shear and moment sample are the same.
C27_OrderIndependent ==
    DiagramsReturned =>
        \A nodes \in {beamData.nodes, Reverse(beamData.nodes)} :
            \A spans \in {beamData.spans, Reverse(beamData.spans)} :
                SameAsSolved(SolvedAfresh(Reordered(beamData, nodes, spans)))

\* the same for the order of beam.nodes alone
C27_NodeOrderIndependent ==
    DiagramsReturned =>
        SameAsSolved(SolvedAfresh(Reordered(beamData, Reverse(beamData.nodes),
                                            beamData.spans)))

----------------------------------------------------------------------------
(* Further claims about the frame solver *)

\* C21: every successful frame solve returns a calculation log of at least
\* 4 sections, each with a non-empty title and at least one step, the steps
\* of each section numbered 1, 2, 3, ... without gaps.
C21_CalculationLog ==
    FrameReturned =>
        /\ Len(frameOutcome.calculationLog) >= 4
        /\ \A section \in SeqRange(frameOutcome.calculationLog) :
               /\ section.title # ""
               /\ Len(section.steps) >= 1
               /\ \A k \in 1..Len(section.steps) : section.steps[k].stepNumber = k

\* the same for the frames that have a member and a supported node
C21_LogOfSupportedFrames ==
    (/\ FrameReturned
     /\ Len(frameData.members) > 0
     /\ \E n \in SeqRange(frameData.nodes) : n.support # "") =>
        /\ Len(frameOutcome.calculationLog) >= 4
        /\ \A section \in SeqRange(frameOutcome.calculationLog) :
               /\ section.title # ""
               /\ Len(section.steps) >= 1
               /\ \A k \in 1..Len(section.steps) : section.steps[k].stepNumber = k

\* the member of the document with the id given
MemberOf(doc, memberId) ==
    doc.members[CHOOSE i \in 1..Len(doc.members) : doc.members[i].id = memberId]

\* the member loads of the document on the member
OwnLoads(doc, memberId) ==
    SelectSeq(doc.loads, LAMBDA l : ~isJointLoad(l) /\ l.memberId = memberId)

\* C25: for every frame member with a moment release at an end, the member
\* end moment that solve reports at that end is zero, also when the member
\* carries loads of its own.
C25_ReleasedEndMoments ==
    FrameReturned =>
        \A mf \in SeqRange(frameOutcome.memberForces) :
            /\ MemberOf(frameData, mf.memberId).releaseStart => mf.momentStart = Q(0)
            /\ MemberOf(frameData, mf.memberId).releaseEnd => mf.momentEnd = Q(0)

\* the same for released members that carry no load of their own
C25_UnloadedReleasedEndMoments ==
    FrameReturned =>
        \A mf \in SeqRange(frameOutcome.memberForces) :
            OwnLoads(frameData, mf.memberId) = <<>> =>
                /\ MemberOf(frameData, mf.memberId).releaseStart => mf.momentStart = Q(0)
                /\ MemberOf(frameData, mf.memberId).releaseEnd => mf.momentEnd = Q(0)

====
